---- MODULE Spec2Model ----
(***************************************************************************)
(* Model of the engine's growable heap (the mutex-guarded variant): heap_t *)
(* with its arena chain, heap_alloc / heap_free called from several        *)
(* threads, and heap_destroy with its leak walk.  The two-level            *)
(* segregated-fit allocator (tlsf), the mutex and the OS page allocator    *)
(* are collaborators of the heap and are modelled by their contracts.      *)
(***************************************************************************)
EXTENDS Integers, Sequences, FiniteSets, TLC

(***************************************************************************)
(* Program constants                                                       *)
(***************************************************************************)
MAX_STACK_DEPTH == 16
PointerSize == 8
ArenaHeaderSize == 16

NULL == 0
NoThread == NULL

(***************************************************************************)
(* Constants of the free-list allocator and of the OS                      *)
(***************************************************************************)
ALIGN_SIZE == 8
block_header_overhead == 8
block_size_min == 24
block_header_size == 32
tlsf_pool_overhead == 16
SMALL_BLOCK_SIZE == 256
SL_INDEX_COUNT == 32
SL_INDEX_COUNT_LOG2 == 5
FL_INDEX_SHIFT == 8
\* 2^32 in the 64-bit build; every size of the model is far below either
block_size_max == 2^30
AllocationGranularity == 65536

(***************************************************************************)
(* Bounds of the model                                                     *)
(***************************************************************************)
MaxCalls == 3
Threads == {1, 2}
Sizes == {8, 100, 200}
Alignments == {1, 8, 64}
\* heap_create's argument; both give every arena a pool of at least
\* block_size_min bytes, so tlsf_add_pool accepts it
GrowIncrements == {64, 512}

(***************************************************************************)
(* Arithmetic helpers                                                      *)
(***************************************************************************)
Max(a, b) == IF a >= b THEN a ELSE b
AlignUp(x, a) == ((x + a - 1) \div a) * a
AlignDown(x, a) == (x \div a) * a

RECURSIVE tlsf_fls(_)
tlsf_fls(x) == IF x <= 1 THEN 0 ELSE 1 + tlsf_fls(x \div 2)

(***************************************************************************)
(* tlsf: a block is [pool, ptr, size, free]; ptr is the payload address,   *)
(* the physically next block of the pool has ptr + size + header overhead. *)
(***************************************************************************)
adjust_request_size(size, align) ==
    IF size = 0 \/ AlignUp(size, align) >= block_size_max THEN 0
    ELSE Max(AlignUp(size, align), block_size_min)

mapping_insert(size) ==
    IF size < SMALL_BLOCK_SIZE
    THEN size \div (SMALL_BLOCK_SIZE \div SL_INDEX_COUNT)
    ELSE LET fl == tlsf_fls(size)
             sl == (size \div 2^(fl - SL_INDEX_COUNT_LOG2)) - SL_INDEX_COUNT
         IN (fl - (FL_INDEX_SHIFT - 1)) * SL_INDEX_COUNT + sl

mapping_search(size) ==
    IF size >= SMALL_BLOCK_SIZE
    THEN mapping_insert(size + 2^(tlsf_fls(size) - SL_INDEX_COUNT_LOG2) - 1)
    ELSE mapping_insert(size)

\* the free blocks block_locate_free may hand out: those of the lowest
\* non-empty size class at or above the class searched for
block_locate_free(B, size) ==
    LET fit == {b \in B : b.free /\ mapping_insert(b.size) >= mapping_search(size)}
    IN IF size = 0 THEN {}
       ELSE {b \in fit : \A o \in fit : mapping_insert(b.size) <= mapping_insert(o.size)}

block_can_split(b, size) == b.size >= block_header_size + size

\* the size tlsf_memalign searches for
memalign_search_size(align, size) ==
    LET adjust == adjust_request_size(size, ALIGN_SIZE)
        size_with_gap == adjust_request_size(adjust + align + block_header_size, align)
    IN IF adjust # 0 /\ align > ALIGN_SIZE THEN size_with_gap ELSE adjust

memalign_gap(ptr, align) ==
    LET aligned == AlignUp(ptr, align)
        gap == aligned - ptr
    IN IF gap # 0 /\ gap < block_header_size
       THEN AlignUp(aligned + Max(block_header_size - gap, align), align) - ptr
       ELSE gap

\* tlsf_memalign once block_locate_free returned blk: trim the leading gap,
\* split off the tail, mark the block used; [blocks, ptr]
tlsf_memalign(B, align, size, blk) ==
    LET adjust == adjust_request_size(size, ALIGN_SIZE)
        gap == memalign_gap(blk.ptr, align)
        trim == gap # 0 /\ block_can_split(blk, gap - block_header_overhead)
        lead == IF trim
                THEN {[pool |-> blk.pool, ptr |-> blk.ptr,
                       size |-> gap - block_header_overhead, free |-> TRUE]}
                ELSE {}
        rest == IF trim
                THEN [pool |-> blk.pool, ptr |-> blk.ptr + gap,
                      size |-> blk.size - gap, free |-> TRUE]
                ELSE blk
        split == block_can_split(rest, adjust)
        used == [rest EXCEPT !.size = IF split THEN adjust ELSE rest.size,
                             !.free = FALSE]
        tail == IF split
                THEN {[pool |-> rest.pool,
                       ptr |-> rest.ptr + adjust + block_header_overhead,
                       size |-> rest.size - adjust - block_header_overhead,
                       free |-> TRUE]}
                ELSE {}
    IN [blocks |-> (B \ {blk}) \cup lead \cup {used} \cup tail, ptr |-> used.ptr]

\* tlsf_add_pool(tlsf, mem, bytes): one free block spanning the pool
tlsf_add_pool(B, mem, bytes) ==
    B \cup {[pool |-> mem, ptr |-> mem + block_header_overhead,
             size |-> AlignDown(bytes - tlsf_pool_overhead, ALIGN_SIZE),
             free |-> TRUE]}

\* tlsf_free(tlsf, ptr): mark free and merge with free physical neighbours
tlsf_free(B, ptr) ==
    IF ptr = NULL THEN B
    ELSE LET b == CHOOSE x \in B : x.ptr = ptr
             prev == {x \in B : x.pool = b.pool /\ x.free
                                /\ x.ptr + x.size + block_header_overhead = b.ptr}
             next == {x \in B : x.pool = b.pool /\ x.free
                                /\ b.ptr + b.size + block_header_overhead = x.ptr}
             first == IF prev = {} THEN b.ptr ELSE (CHOOSE x \in prev : TRUE).ptr
             lastb == IF next = {} THEN b ELSE CHOOSE x \in next : TRUE
         IN (B \ ({b} \cup prev \cup next))
            \cup {[pool |-> b.pool, ptr |-> first,
                   size |-> lastb.ptr + lastb.size - first, free |-> TRUE]}

\* tlsf_walk_pool(pool, walker, user): the blocks of the pool in address order
RECURSIVE tlsf_walk_pool(_, _)
tlsf_walk_pool(B, pool) ==
    LET mine == {b \in B : b.pool = pool}
    IN IF mine = {} THEN << >>
       ELSE LET b == CHOOSE x \in mine : \A o \in mine : x.ptr <= o.ptr
            IN <<b>> \o tlsf_walk_pool(B \ {b}, pool)

(***************************************************************************)
(* The heap                                                                *)
(***************************************************************************)
VARIABLES
    grow_increment,  \* heap->grow_increment
    arena,           \* heap->arena: the chain of arena addresses, head first
    regions,         \* the arenas VirtualAlloc returned: [base, bytes]
    blocks,          \* heap->tlsf: the blocks of all pools
    mutex,           \* heap->mutex: the owning thread or NoThread
    pc,              \* each thread's position in heap_alloc / heap_free
    frame,           \* each thread's arguments and locals
    live,            \* allocations the callers hold: [ptr, size, alignment]
    stackmem,        \* call stacks in memory: [addr, ptr]
    calls,           \* number of calls started
    snap,            \* arena chain and blocks when the mutex was taken
    dpc,             \* position of heap_destroy
    cursor,          \* heap_destroy's local arena
    dnext,           \* heap_destroy's local next
    reports,         \* leak entries printed: [ptr, size, callstack]
    released,        \* arenas handed to VirtualFree, in order
    heap_released,   \* the heap structure was handed to VirtualFree
    dlog,            \* heap_destroy's steps in order
    use_after_free,  \* a released arena or the released heap was read
    freed            \* the addresses tlsf_free has released

heap_vars == <<grow_increment, arena, regions, blocks, mutex, pc, frame, live,
          stackmem, calls, snap, dpc, cursor, dnext, reports, released,
          heap_released, dlog, use_after_free, freed>>

(***************************************************************************)
(* The entity-component-system runtime                                     *)
(***************************************************************************)
VARIABLES
    ecs_phase,       \* "init" while component types are registered, then "run"
    ntypes,          \* number of registered component types
    type_ids,        \* what each register_component_type call returned, in order
    slots,           \* the entity table: slot -> [live, mask, gen]
    refs,            \* every EntityRef entity_add has returned
    removed,         \* the refs entity_remove has removed
    query,           \* the query cursor of the running for-loop
    ecs_op           \* the last call into the runtime and what it returned

ecs_vars == <<ecs_phase, ntypes, type_ids, slots, refs, removed, query, ecs_op>>

VARIABLES
    work,               \* the fs_work_t items
    file_queue,         \* fs->file_queue, oldest first; NULL ends the thread
    compression_queue,  \* fs->compression_queue
    queue_destroyed,    \* the queues queue_destroy has freed
    file_thread,        \* file_thread_func: [pc, work]
    compression_thread, \* compression_thread_func: [pc, work]
    fs_pc,              \* position of fs_destroy
    queue_misuse,       \* a destroyed queue was pushed to or popped from
    work_race           \* a worker touched a work item after done was signalled

fs_vars == <<work, file_queue, compression_queue, queue_destroyed, file_thread,
             compression_thread, fs_pc, queue_misuse, work_race>>

VARIABLES
    frontend,  \* "c" for frogger_game, "lua" for lua_project, "none" before
    g_pc,      \* the call site the front-end is at
    g_frame,   \* the frames started
    g_types,   \* the type ids the front-end holds: struct fields, Lua globals
    g_ntypes,  \* component types its runtime has registered
    g_slots,   \* the entity table of its runtime
    g_cur,     \* the ref the running spawn function got
    g_ents,    \* the refs the game keeps: player, cars, camera
    g_stack,   \* the queries of the running for-loops, innermost last
    g_call     \* the last call into the runtime

game_vars == <<frontend, g_pc, g_frame, g_types, g_ntypes, g_slots, g_cur, g_ents,
               g_stack, g_call>>

VARIABLES
    trace_capacity,    \* trace->capacity, 0 before trace_create
    trace_enabled,     \* trace->enabled
    duration_count,    \* thread_stack->duration_count of each thread
    trace_logs_count,  \* trace->trace_logs_count
    trace_calls,       \* the pushes and pops called
    trace_touched,     \* the event slots the last operation addressed
    durations,         \* each thread's durations: the name stored per index
    trace_logs,        \* trace->trace_logs: the event stored per index
    captures,          \* the trace_capture_start calls that took effect
    open_names,        \* each thread's pushes that its caller has not popped
    nested,            \* each thread's pops all had an open push
    trace_end,         \* the last trace_duration_pop and its end event
    trace_emitted      \* the events of the last format_output

trace_vars == <<trace_capacity, trace_enabled, duration_count, trace_logs_count,
                trace_calls, trace_touched, durations, trace_logs, captures,
                open_names, nested, trace_end, trace_emitted>>

VARIABLES
    script_mask,  \* the bits of the mask a script hands to ECS:AddEntity
    entity_mask,  \* the bits of the mask add_entity hands to ecs_entity_add
    api_pc        \* "called" between the script's call and add_entity's work

api_vars == <<script_mask, entity_mask, api_pc>>

VARIABLES
    play_frontend,  \* "c" or "lua" once the game is created, "none" before
    player,         \* the player's transform: [y, z], in hundredths
    car,            \* the car's transform: [y, z]
    play_last       \* what the last update_players call saw and did

play_vars == <<play_frontend, player, car, play_last>>

VARIABLES
    side_grow,        \* heap->grow_increment of the side-list heap, 0 before
    side_arena,       \* its heap->arena chain, head first
    side_regions,     \* the arenas VirtualAlloc returned
    side_blocks,      \* its heap->tlsf: the blocks of all pools
    side_callstacks,  \* per arena, the call stacks from head_callstack on
    side_live,        \* what the callers hold: [ptr, callstack]
    side_calls,       \* the heap_alloc and heap_free calls made
    side_reports      \* the leaks heap_destroy printed: [ptr, callstack]

side_vars == <<side_grow, side_arena, side_regions, side_blocks, side_callstacks,
               side_live, side_calls, side_reports>>

VARIABLES
    thread_stacks,    \* trace->thread_stacks: the first record of the list or NULL
    stack_records,    \* the thread_stack_t records allocated: [tid, next]
    stack_mutex,      \* the owner of trace->add_thread_mutex
    stack_pc,         \* where each thread is in get_thread_stack
    stack_frame,      \* its locals: [this, itr]
    stack_calls,      \* the calls of get_thread_stack made
    stack_appended    \* the records that were linked into the list

stack_vars == <<thread_stacks, stack_records, stack_mutex, stack_pc, stack_frame,
                stack_calls, stack_appended>>

\* what the operations of each part leave alone
outside_heap == <<ecs_vars, fs_vars, game_vars, trace_vars, api_vars, play_vars,
                  side_vars, stack_vars>>
outside_ecs == <<heap_vars, fs_vars, game_vars, trace_vars, api_vars, play_vars,
                 side_vars, stack_vars>>
outside_fs == <<heap_vars, ecs_vars, game_vars, trace_vars, api_vars, play_vars,
                side_vars, stack_vars>>
outside_game == <<heap_vars, ecs_vars, fs_vars, trace_vars, api_vars, play_vars,
                  side_vars, stack_vars>>
outside_trace == <<heap_vars, ecs_vars, fs_vars, game_vars, api_vars, play_vars,
                   side_vars, stack_vars>>
outside_api == <<heap_vars, ecs_vars, fs_vars, game_vars, trace_vars, play_vars,
                 side_vars, stack_vars>>
outside_play == <<heap_vars, ecs_vars, fs_vars, game_vars, trace_vars, api_vars,
                  side_vars, stack_vars>>
outside_side == <<heap_vars, ecs_vars, fs_vars, game_vars, trace_vars, api_vars,
                  play_vars, stack_vars>>
outside_stack == <<heap_vars, ecs_vars, fs_vars, game_vars, trace_vars, api_vars,
                   play_vars, side_vars>>

vars == <<heap_vars, ecs_vars, fs_vars, game_vars, trace_vars, api_vars, play_vars,
         side_vars, stack_vars>>

destroy_vars == <<dpc, cursor, dnext, reports, released, heap_released, dlog,
                  use_after_free>>

NoFrame == [size |-> 0, alignment |-> 0, padded_size |-> 0, address |-> NULL,
            arena |-> NULL, grew |-> FALSE, ptr |-> NULL]
NoSnap == [arena |-> << >>, blocks |-> {}, taken |-> FALSE]

StackBytes == MAX_STACK_DEPTH * PointerSize

\* VirtualAlloc(NULL, ...): a fresh region above every region handed out so
\* far (the heap structure itself occupies the first one)
VirtualAlloc(R) ==
    LET ends == {r.base + r.bytes : r \in R}
    IN IF R = {} THEN 2 * AllocationGranularity
       ELSE AlignUp(CHOOSE e \in ends : \A o \in ends : o <= e, AllocationGranularity)

mutex_lock(t) == mutex = NoThread /\ mutex' = t
mutex_unlock(t) == mutex' = NoThread

(***************************************************************************)
(* The runtime's state and operations (section 4.2 of the specification)   *)
(***************************************************************************)
\* the bit-width of the membership mask
MaskWidth == 64
\* the failure value of register_component_type
RegistrationFailed == -1
\* element size of every component store of the model, and where the first
\* store starts
ComponentSize == 8
ComponentStoreBase == 4096

\* bounds: the slots of the entity table, and the generation bumps explored
MaxEntities == 3
MaxBumps == 3
\* bound: the registrations attempted once the mask is full
MaxFailedRegistrations == 2
\* the numbers of registered types with which entities are created, the
\* types the masks of the model use, and the masks
TypeCountsAtStart == {2, 6}
EntityTypes == {0, 1}
Masks == SUBSET EntityTypes
QueryMasks == Masks \ {{}}

EntitySlots == 0..(MaxEntities - 1)
NoRef == [slot |-> -1, gen |-> 0]
NoQuery == [active |-> FALSE, mask |-> {}, cursor |-> MaxEntities,
            visited |-> << >>, dirty |-> FALSE, ended |-> FALSE]
NoOp == [name |-> "none", ref |-> NoRef, type |-> 0, cim |-> FALSE,
         mask |-> {}, ret |-> 0, rref |-> NoRef]

\* ecs_create: no component type, every slot free
ecs_create ==
    /\ ecs_phase = "init"
    /\ ntypes = 0
    /\ type_ids = << >>
    /\ slots = [s \in EntitySlots |-> [live |-> FALSE, mask |-> {}, gen |-> 0]]
    /\ refs = {}
    /\ removed = {}
    /\ query = NoQuery
    /\ ecs_op = NoOp

\* register_component_type testing the count one too late
ecs_register_component_type_off_by_one(n) ==
    IF n > MaskWidth
    THEN [ntypes |-> n, ret |-> RegistrationFailed]
    ELSE [ntypes |-> n + 1, ret |-> n]

\* register_component_type with n types registered: [ntypes, ret]
ecs_register_component_type(n) ==
    IF n >= MaskWidth
    THEN [ntypes |-> n, ret |-> RegistrationFailed]
    ELSE [ntypes |-> n + 1, ret |-> n]

\* the slot entity_add finds
free_slot(S) ==
    CHOOSE s \in EntitySlots : ~S[s].live /\ \A o \in EntitySlots : ~S[o].live => s <= o

\* entity_add(mask): [slots, ref]
ecs_entity_add(S, mask) ==
    LET s == free_slot(S)
        g == S[s].gen + 1
    IN [slots |-> [S EXCEPT ![s] = [live |-> TRUE, mask |-> mask, gen |-> g]],
        ref |-> [slot |-> s, gen |-> g]]

\* a validity test that looks at the slot only
ecs_is_entity_ref_valid_slot_only(S, ref) ==
    ref.slot \in EntitySlots /\ S[ref.slot].live

\* the generation test of entity_remove and entity_get_component
ecs_is_entity_ref_valid(S, ref) ==
    ref.slot \in EntitySlots /\ S[ref.slot].gen = ref.gen

\* entity_remove that leaves the generation as it is
ecs_entity_remove_keeps_generation(S, ref) ==
    IF ecs_is_entity_ref_valid(S, ref)
    THEN [S EXCEPT ![ref.slot] = [live |-> FALSE, mask |-> {},
                                  gen |-> S[ref.slot].gen]]
    ELSE S

\* entity_remove that frees whatever lives in the slot of the ref
ecs_entity_remove_any_generation(S, ref) ==
    IF ref.slot \in EntitySlots /\ S[ref.slot].live
    THEN [S EXCEPT ![ref.slot] = [live |-> FALSE, mask |-> {},
                                  gen |-> S[ref.slot].gen + 1]]
    ELSE S

\* entity_remove(ref): the slots
ecs_entity_remove(S, ref) ==
    IF ecs_is_entity_ref_valid(S, ref)
    THEN [S EXCEPT ![ref.slot] = [live |-> FALSE, mask |-> {},
                                  gen |-> S[ref.slot].gen + 1]]
    ELSE S

\* one component per type, whatever the slot
component_pointer_shared(type, slot) ==
    ComponentStoreBase + (type * MaxEntities) * ComponentSize

\* where the component of a type lives for a slot
component_pointer(type, slot) ==
    ComponentStoreBase + (type * MaxEntities + slot) * ComponentSize

\* entity_get_component that never looks at create_if_missing
ecs_entity_get_component_always_creates(S, ref, type, cim) ==
    IF ~ecs_is_entity_ref_valid(S, ref) THEN {NULL}
    ELSE {component_pointer(type, ref.slot)}

\* entity_get_component(ref, type, create_if_missing): the values it may
\* return; with create_if_missing on a type the mask lacks the specification
\* leaves open whether the call is rejected, and the mask stays as created
ecs_entity_get_component(S, ref, type, cim) ==
    IF ~ecs_is_entity_ref_valid(S, ref) THEN {NULL}
    ELSE IF type \in S[ref.slot].mask THEN {component_pointer(type, ref.slot)}
    ELSE IF ~cim THEN {NULL}
    ELSE {NULL, component_pointer(type, ref.slot)}

\* a scan that accepts a slot holding any of the required bits
query_scan_any_bit(S, mask, from) ==
    LET hit == {s \in EntitySlots : s >= from /\ S[s].live /\ mask \cap S[s].mask # {}}
    IN IF hit = {} THEN MaxEntities
       ELSE CHOOSE s \in hit : \A o \in hit : s <= o

\* the first slot at or after `from` that is live with a mask holding every
\* required bit, or MaxEntities past the last slot
query_scan(S, mask, from) ==
    LET hit == {s \in EntitySlots : s >= from /\ S[s].live /\ mask \subseteq S[s].mask}
    IN IF hit = {} THEN MaxEntities
       ELSE CHOOSE s \in hit : \A o \in hit : s <= o

ecs_query_is_valid(q) == q.cursor < MaxEntities

\* query_create(mask): the cursor starts its scan at slot 0
ecs_query_create(S, mask) == query_scan(S, mask, 0)

\* query_next that scans again from the slot it is on
ecs_query_next_same_slot(S, q) ==
    IF q.cursor >= MaxEntities THEN MaxEntities
    ELSE query_scan(S, q.mask, q.cursor)

\* query_next: the cursor after the call
ecs_query_next(S, q) ==
    IF q.cursor >= MaxEntities THEN MaxEntities
    ELSE query_scan(S, q.mask, q.cursor + 1)

(***************************************************************************)
(* The asynchronous file system: work items, two queues, two worker        *)
(* threads                                                                 *)
(***************************************************************************)
\* bound: the work items submitted
MaxWorks == 2
\* fs_create's queue_capacity
queue_capacity == 8
\* what GetLastError gives after a failed call
LastError == 5
\* the result file_read and file_write leave when the path conversion fails
PathConversionFailed == -1

WorkIds == 1..MaxWorks
FsOps == {"read", "write"}
\* how far file_read and file_write get
FileReadOutcomes == {"path", "open", "size", "read", "ok"}
FileWriteOutcomes == {"path", "open", "write", "ok"}
\* whether LZ4 handles the data
Lz4Outcomes == {"fail", "ok"}

NoWork == [state |-> "none", op |-> "read", use_compression |-> FALSE,
           result |-> 0, done |-> FALSE, signals |-> 0, stages |-> << >>,
           failed |-> FALSE]
Idle == [pc |-> "pop", work |-> NULL]

\* fs_create: both queues empty, both threads started
fs_create ==
    /\ work = [w \in WorkIds |-> NoWork]
    /\ file_queue = << >>
    /\ compression_queue = << >>
    /\ queue_destroyed = {}
    /\ file_thread = Idle
    /\ compression_thread = Idle
    /\ fs_pc = "running"
    /\ queue_misuse = FALSE
    /\ work_race = FALSE

\* fs_read / fs_write lines 74-84 and 91-101: the new work item
new_work(op, use_compression) ==
    [NoWork EXCEPT !.state = "submitted", !.op = op,
                   !.use_compression = use_compression]

\* slip: file_read signals done and still hands the item on
file_read_signals_and_pushes(wk, outcome) ==
    LET seen == [wk EXCEPT !.stages = Append(wk.stages, "file")]
    IN IF outcome = "path"
       THEN [work |-> [seen EXCEPT !.result = PathConversionFailed, !.failed = TRUE],
             then |-> {}]
       ELSE IF outcome # "ok"
       THEN [work |-> [seen EXCEPT !.result = LastError, !.failed = TRUE],
             then |-> {}]
       ELSE [work |-> seen,
             then |-> IF wk.use_compression THEN {"push", "signal"} ELSE {"signal"}]

\* file_read: the work item after the call, and what the call ends with
file_read(wk, outcome) ==
    LET seen == [wk EXCEPT !.stages = Append(wk.stages, "file")]
    IN IF outcome = "path"
       THEN [work |-> [seen EXCEPT !.result = PathConversionFailed, !.failed = TRUE],
             then |-> {}]
       ELSE IF outcome # "ok"
       THEN [work |-> [seen EXCEPT !.result = LastError, !.failed = TRUE],
             then |-> {}]
       ELSE [work |-> seen,
             then |-> IF wk.use_compression THEN {"push"} ELSE {"signal"}]

\* file_write
file_write(wk, outcome) ==
    LET seen == [wk EXCEPT !.stages = Append(wk.stages, "file")]
    IN IF outcome = "path"
       THEN [work |-> [seen EXCEPT !.result = PathConversionFailed, !.failed = TRUE],
             then |-> {}]
       ELSE IF outcome # "ok"
       THEN [work |-> [seen EXCEPT !.result = LastError, !.failed = TRUE],
             then |-> {}]
       ELSE [work |-> seen, then |-> {"signal"}]

\* slip: a compressed write is signalled by the compression stage already
compress_signals_early(wk, outcome) ==
    LET seen == [wk EXCEPT !.stages = Append(wk.stages, "compression"),
                           !.failed = wk.failed \/ outcome = "fail"]
    IN [work |-> seen,
        then |-> IF wk.op = "read" THEN {"signal"} ELSE {"push", "signal"}]

\* compression_thread_func lines 291-345: a failed LZ4 call is printed and
\* the result is left as it was
compress(wk, outcome) ==
    LET seen == [wk EXCEPT !.stages = Append(wk.stages, "compression"),
                           !.failed = wk.failed \/ outcome = "fail"]
    IN [work |-> seen,
        then |-> IF wk.op = "read" THEN {"signal"} ELSE {"push"}]

\* event_signal(work->done)
event_signal(wk) == [wk EXCEPT !.done = TRUE, !.signals = wk.signals + 1]

\* queue_push on a queue: a destroyed queue takes nothing
queue_push(q, name, item) == IF name \in queue_destroyed THEN q ELSE Append(q, item)

(***************************************************************************)
(* The gameplay layers: the C Frogger game and the Lua project with its    *)
(* Frogger script, as the calls they make into the runtime                 *)
(***************************************************************************)
\* bound: the frames played
MaxFrames == 2
\* the cars spawned: 14 in both games, as many here as the entity table of
\* the model takes next to the player and the camera
TrafficCount == MaxEntities - 2

FrontEnds == {"c", "lua"}
ComponentNames == {"transform", "camera", "model", "player", "traffic", "name"}

\* frogger_game_create lines 128-133, create_base_components lines 182-187
registration_order(fe) ==
    IF fe = "c"
    THEN <<"transform", "camera", "model", "player", "traffic", "name">>
    ELSE <<"camera", "player", "transform", "model", "name", "traffic">>

\* slip: the camera is created without its name component
spawn_mask_camera_unnamed(fe, kind) ==
    CASE kind = "player" -> {"transform", "model", "player", "name"}
      [] kind = "traffic" -> {"transform", "model", "traffic", "name"}
      [] kind = "camera" -> {"camera"}

\* the k_*_ent_mask of spawn_player, spawn_traffic and spawn_camera
spawn_mask(fe, kind) ==
    CASE kind = "player" -> {"transform", "model", "player", "name"}
      [] kind = "traffic" -> {"transform", "model", "traffic", "name"}
      [] kind = "camera" -> {"camera", "name"}

\* the components the spawn functions fetch from the new entity, in order
spawn_gets(fe, kind) ==
    CASE fe = "c" /\ kind = "player" -> <<"transform", "name", "player", "model">>
      [] fe = "c" /\ kind = "traffic" -> <<"transform", "traffic", "name", "model">>
      [] fe = "c" /\ kind = "camera" -> <<"name", "camera">>
      [] fe = "lua" /\ kind = "player" -> <<"name", "transform", "player">>
      [] fe = "lua" /\ kind = "traffic" -> <<"name", "transform", "traffic">>
      [] fe = "lua" /\ kind = "camera" -> <<"name", "camera">>

RegisterItems(fe) ==
    [i \in 1..Len(registration_order(fe)) |->
        [op |-> "register", arg |-> registration_order(fe)[i], gets |-> << >>,
         brk |-> FALSE]]

SpawnItems ==
    <<[op |-> "spawn", arg |-> "player", gets |-> << >>, brk |-> FALSE]>>
    \o [i \in 1..TrafficCount |-> [op |-> "spawn", arg |-> "traffic", gets |-> << >>, brk |-> FALSE]]
    \o <<[op |-> "spawn", arg |-> "camera", gets |-> << >>, brk |-> FALSE]>>

\* slip: the last component type is registered after the entities are spawned
create_program_registers_late(fe) ==
    SubSeq(RegisterItems(fe), 1, Len(RegisterItems(fe)) - 1) \o SpawnItems
    \o SubSeq(RegisterItems(fe), Len(RegisterItems(fe)), Len(RegisterItems(fe)))

\* frogger_game_create lines 127-149, and lua_project_create lines 315-319
\* running create_game of the script
create_program(fe) == RegisterItems(fe) \o SpawnItems

\* frogger_game_update, and lua_project_update running RenderStepped and
\* then draw_models
frame_program(fe) ==
    IF fe = "c"
    THEN <<[op |-> "update", arg |-> "", gets |-> << >>, brk |-> FALSE],
           [op |-> "query", arg |-> "update_players", gets |-> << >>, brk |-> FALSE],
           [op |-> "query", arg |-> "update_traffic", gets |-> << >>, brk |-> FALSE],
           [op |-> "query", arg |-> "draw_cameras", gets |-> << >>, brk |-> FALSE]>>
    ELSE <<[op |-> "update", arg |-> "", gets |-> << >>, brk |-> FALSE],
           [op |-> "entities", arg |-> "traffic", gets |-> <<"transform", "traffic">>, brk |-> FALSE],
           [op |-> "entities", arg |-> "player", gets |-> <<"transform", "player">>, brk |-> FALSE],
           [op |-> "entities", arg |-> "traffic", gets |-> <<"transform">>, brk |-> TRUE],
           [op |-> "query", arg |-> "lua_draw_cameras", gets |-> << >>, brk |-> FALSE]>>

\* the for-loops over a query: the required mask, the components fetched in
\* the body, the loop nested in the body, whether the body may return
query_loop(loop) ==
    CASE loop = "update_players" ->
            [mask |-> {"transform", "player"}, gets |-> <<"transform", "player">>,
             inner |-> "did_player_collide_with_traffic", may_break |-> FALSE]
      [] loop = "did_player_collide_with_traffic" ->
            [mask |-> {"transform", "traffic"}, gets |-> <<"transform">>,
             inner |-> "none", may_break |-> TRUE]
      [] loop = "update_traffic" ->
            [mask |-> {"transform", "traffic"}, gets |-> <<"transform", "traffic">>,
             inner |-> "none", may_break |-> FALSE]
      [] loop = "draw_cameras" ->
            [mask |-> {"camera"}, gets |-> <<"camera">>,
             inner |-> "draw_models", may_break |-> FALSE]
      [] loop = "draw_models" ->
            [mask |-> {"transform", "model"}, gets |-> <<"transform", "model">>,
             inner |-> "none", may_break |-> FALSE]
      [] loop = "lua_draw_cameras" ->
            [mask |-> {"camera"}, gets |-> <<"camera">>,
             inner |-> "lua_draw_models", may_break |-> FALSE]
      [] loop = "lua_draw_models" ->
            [mask |-> {"transform", "model"},
             gets |-> <<"transform", "model", "player">>,
             inner |-> "none", may_break |-> FALSE]

NoCall == [name |-> "none", type |-> RegistrationFailed, mask |-> {}, ref |-> NoRef]
NoEntities == [player |-> << >>, traffic |-> << >>, camera |-> << >>]

\* before frogger_game_create or lua_project_create
game_none ==
    /\ frontend = "none"
    /\ g_pc = [prog |-> "none", item |-> 0, k |-> 0, e |-> 0]
    /\ g_frame = 0
    /\ g_types = [n \in ComponentNames |-> RegistrationFailed]
    /\ g_ntypes = 0
    /\ g_slots = [s \in EntitySlots |-> [live |-> FALSE, mask |-> {}, gen |-> 0]]
    /\ g_cur = NoRef
    /\ g_ents = NoEntities
    /\ g_stack = << >>
    /\ g_call = NoCall

(***************************************************************************)
(* The trace recorder: per-thread duration stacks and the shared log        *)
(***************************************************************************)
\* bound: the event capacities trace_create is given
MaxCapacity == 3
\* bound: the trace_duration_push and trace_duration_pop calls
MaxTraceCalls == 4
TraceThreads == {1, 2}

\* bound: the captures started
MaxCaptures == 2
\* the names pushed
TraceNames == {"a", "b"}
\* what a read outside the written memory gives
Garbage == "?"

NoEvent == [name |-> "", ph |-> "", tid |-> 0, capture |-> 0]
NoEnd == [tid |-> 0, written |-> FALSE, name |-> "", expected |-> ""]

\* before trace_create
trace_none ==
    /\ trace_capacity = 0
    /\ trace_enabled = FALSE
    /\ duration_count = [t \in TraceThreads |-> 0]
    /\ trace_logs_count = 0
    /\ trace_calls = 0
    /\ trace_touched = {}
    /\ durations = [t \in TraceThreads |-> [i \in 0..(MaxCapacity - 1) |-> ""]]
    /\ trace_logs = [i \in 0..(2 * MaxCapacity - 1) |-> NoEvent]
    /\ captures = 0
    /\ open_names = [t \in TraceThreads |-> << >>]
    /\ nested = [t \in TraceThreads |-> TRUE]
    /\ trace_end = NoEnd
    /\ trace_emitted = << >>

\* base + index * sizeof(trace_event_t*) on a trace_event_t* base: the
\* pointer addition scales by the size of an event, so the event addressed
\* is number index * sizeof(trace_event_t*)
trace_event_at(index) == index * PointerSize

\* the values atomic_increment(&count) may hand back: the count before or
\* after the increment
atomic_increment(count) == {count, count + 1}

\* an event slot of an array of `size` events
Slot(array, slot, size) == [array |-> array, slot |-> slot, size |-> size]

\* format_output line 190: the number of events to print
num_logs(count, capacity) == IF count < capacity * 2 THEN count ELSE capacity * 2

\* format_output: the trace_logs events it reads, and the events it prints
\* in order; an event never stored prints as whatever the memory holds
format_output ==
    LET n == num_logs(trace_logs_count, trace_capacity)
    IN [touched |-> {Slot("trace_logs", trace_event_at(i), 2 * trace_capacity) :
                        i \in 0..(n - 1)},
        emitted |-> [k \in 1..n |-> trace_logs[k - 1]]]

\* the name trace_duration_pop finds at durations[dur_index]
begin_name(t, dur_index) ==
    IF dur_index \in 0..(MaxCapacity - 1) THEN durations[t][dur_index] ELSE Garbage

(***************************************************************************)
(* The script interface: ECS:AddEntity                                     *)
(***************************************************************************)
\* the component ids scripts build masks from: the ends of the low word, of
\* the high word and of the int
ScriptIds == {0, 5, 30, 31, 32, 63}

\* no call of ECS:AddEntity yet
api_none ==
    /\ script_mask = {}
    /\ entity_mask = {}
    /\ api_pc = "none"

\* add_entity lines 150-151 on the set of bits of the lua_Integer:
\* (int) keeps the low 32 bits, (uint64_t) of the int extends its sign bit
\* into bits 32..63
add_entity_mask(bits) ==
    LET k_ent_mask == bits \cap (0..31)
    IN IF 31 \in k_ent_mask THEN k_ent_mask \cup (32..(MaskWidth - 1))
       ELSE k_ent_mask

(***************************************************************************)
(* The Frogger rules: the player and one car.  Lengths are in hundredths   *)
(* of a unit, speeds in tenths of a unit per second, times in hundredths   *)
(* of a second                                                             *)
(***************************************************************************)
\* frogger_game_create: top = -13 and its mirror images; left = top * 16 / 9
bound_top == -1300
bound_bottom == 1300
bound_left == -2311
bound_right == 2311
\* transform_identity: a scale of 1 in every direction
identity_scale == 100
\* spawn_player: speed = 1.5 and z = bound_bottom - 1.5
player_speed == 15
player_spawn_offset == 150
\* all_cars[0]: spawn_percent 0.25, row 0, speed 2.5, size 1.5, moving right
car_spawn_percent == 25
car_speed == 25
car_size == 150
\* spawn_traffic: z = bound_bottom - 4 - row * 2.1
car_row_offset == 400
\* update_players: fabs(...) < 0.01
top_tolerance == 1

\* the timer's delta of a frame
DeltaTimes == {250}
\* wm_get_key_mask: no key, one key, opposite keys, a diagonal
Keys == {{}, {"up"}, {"down"}, {"left"}, {"right"}, {"up", "down"}, {"up", "left"}}

NoUpdate == [called |-> FALSE, y |-> 0, z |-> 0, car_y |-> 0, car_z |-> 0,
             reset_y |-> 0, reset_z |-> 0, dy |-> 0, dz |-> 0]

\* before the game is created
play_none ==
    /\ play_frontend = "none"
    /\ player = [y |-> 0, z |-> 0]
    /\ car = [y |-> 0, z |-> 0]
    /\ play_last = NoUpdate

fabs(x) == IF x < 0 THEN -x ELSE x
clamp(lo, hi, x) == IF Max(lo, x) < hi THEN Max(lo, x) ELSE hi

\* spawn_player: the identity transform, moved to the bottom
spawn_player == [y |-> 0, z |-> bound_bottom - player_spawn_offset]

\* spawn_traffic for all_cars[0]
spawn_traffic ==
    LET left_end == bound_left - car_size
        right_end == bound_right + car_size
        total_distance == fabs(left_end - right_end)
    IN [y |-> left_end + (car_spawn_percent * total_distance) \div 100,
        z |-> bound_bottom - car_row_offset]

\* did_player_collide_with_traffic
did_player_collide_with_traffic(c, p) ==
    /\ fabs(c.y - p.y) < car_size + identity_scale
    /\ fabs(c.z - p.z) < identity_scale + identity_scale

\* a top test that forgets the player's size
player_hit_top_of_bounds(p) == fabs(bound_top - p.z) < top_tolerance

\* update_players: the player hit the top of the screen
player_hit_top(p) == fabs(bound_top + identity_scale - p.z) < top_tolerance

\* the distance dt * speed moves in one frame
distance(speed, dt) == (speed * dt) \div 10

\* update_players on player p with car c: the transform before the movement
\* is applied, the movement and the transform after it
update_players(p, c, key_mask, dt) ==
    LET won == IF player_hit_top(p) THEN [y |-> 0, z |-> bound_bottom] ELSE p
        lost == IF did_player_collide_with_traffic(c, won)
                THEN [y |-> 0, z |-> bound_bottom] ELSE won
        step == distance(player_speed, dt)
        dz == (IF "up" \in key_mask THEN -step ELSE 0)
              + (IF "down" \in key_mask THEN step ELSE 0)
        dy == (IF "left" \in key_mask THEN -step ELSE 0)
              + (IF "right" \in key_mask THEN step ELSE 0)
    IN [reset |-> lost, dy |-> dy, dz |-> dz,
        moved |-> [y |-> clamp(bound_left + identity_scale,
                               bound_right - identity_scale, lost.y + dy),
                   z |-> clamp(bound_top + identity_scale,
                               bound_bottom - identity_scale, lost.z + dz)]]

\* update_traffic on a car moving right
update_traffic(c, dt) ==
    LET wrapped == IF c.y >= bound_right + car_size THEN bound_left - car_size
                   ELSE c.y
    IN [c EXCEPT !.y = wrapped + distance(car_speed, dt)]

(***************************************************************************)
(* The heap variant that keeps its call stacks in a list per arena         *)
(***************************************************************************)
\* bound: the heap_alloc and heap_free calls on the side-list heap
MaxSideCalls == 3
\* sizeof(arena_t) with the two call stack pointers
SideArenaHeaderSize == 32
\* side_reports once heap_destroy has run and found nothing
Destroyed == <<[ptr |-> NULL, callstack |-> 0]>>

\* before heap_create
side_none ==
    /\ side_grow = 0
    /\ side_arena = << >>
    /\ side_regions = {}
    /\ side_blocks = {}
    /\ side_callstacks = << >>
    /\ side_live = {}
    /\ side_calls = 0
    /\ side_reports = << >>

\* get_backtrace(arena) for the call stack `id`: it goes to the tail of the
\* arena's list
get_backtrace(cs, a, id) ==
    [x \in DOMAIN cs \cup {a} |->
        IF x # a THEN cs[x]
        ELSE IF a \in DOMAIN cs THEN Append(cs[a], id) ELSE <<id>>]

\* the tlsf_memalign calls of heap_alloc: the results on blocks B
side_memalign(B, alignment, size) ==
    LET cands == block_locate_free(B, memalign_search_size(alignment, size))
    IN IF cands = {} THEN {[blocks |-> B, ptr |-> NULL]}
       ELSE {tlsf_memalign(B, alignment, size, blk) : blk \in cands}

\* heap_alloc(heap, size, alignment) up to the call of get_backtrace: the
\* outcomes, `arena` being heap->arena at that point or NULL when heap_alloc
\* returned before it
side_heap_alloc(size, alignment, oom) ==
    LET first == side_memalign(side_blocks, alignment, size)
        base == VirtualAlloc(side_regions)
        bytes == Max(side_grow, size * 2) + SideArenaHeaderSize
        grown == tlsf_add_pool(side_blocks, base + SideArenaHeaderSize, bytes)
    IN IF \A r \in first : r.ptr = NULL
       THEN IF oom
            THEN {[blocks |-> side_blocks, chain |-> side_arena,
                   regions |-> side_regions, ptr |-> NULL, arena |-> NULL]}
            ELSE {[blocks |-> r.blocks, chain |-> <<base>> \o side_arena,
                   regions |-> side_regions \cup {[base |-> base, bytes |-> bytes]},
                   ptr |-> r.ptr, arena |-> base] :
                     r \in side_memalign(grown, alignment, size)}
       ELSE {[blocks |-> r.blocks, chain |-> side_arena, regions |-> side_regions,
              ptr |-> r.ptr, arena |-> Head(side_arena)] : r \in first}

\* the walk of one pool with memory_leak_walker: each block takes the call
\* stack at the head of the arena's list, a used block prints it; with the
\* list empty the walker returns
RECURSIVE side_walk(_, _)
side_walk(bs, list) ==
    IF bs = << >> \/ list = << >> THEN << >>
    ELSE (IF Head(bs).free THEN << >>
          ELSE <<[ptr |-> Head(bs).ptr, callstack |-> Head(list)]>>)
         \o side_walk(Tail(bs), Tail(list))

\* heap_destroy: the pools walked in the order of the arena chain
RECURSIVE side_heap_destroy(_)
side_heap_destroy(chain) ==
    IF chain = << >> THEN << >>
    ELSE side_walk(tlsf_walk_pool(side_blocks, Head(chain) + SideArenaHeaderSize),
                   IF Head(chain) \in DOMAIN side_callstacks
                   THEN side_callstacks[Head(chain)] ELSE << >>)
         \o side_heap_destroy(Tail(chain))

(***************************************************************************)
(* The list of thread stacks of the trace system                           *)
(***************************************************************************)
\* bound: the calls of get_thread_stack
MaxStackCalls == 4
\* the threads that push and pop durations
StackThreads == {1, 2, 3}
NoStackFrame == [this |-> NULL, itr |-> NULL]

\* after trace_create
stack_none ==
    /\ thread_stacks = NULL
    /\ stack_records = << >>
    /\ stack_mutex = NoThread
    /\ stack_pc = [t \in StackThreads |-> "idle"]
    /\ stack_frame = [t \in StackThreads |-> NoStackFrame]
    /\ stack_calls = 0
    /\ stack_appended = {}

\* what thread t can read from a link outside the lock: the record linked
\* there or, while the thread that linked it has not yet unlocked the mutex,
\* still the NULL from before
unlocked_read(ptr, t) ==
    IF /\ ptr # NULL
       /\ \E u \in StackThreads \ {t} :
             stack_pc[u] = "unlock" /\ stack_frame[u].this = ptr
    THEN {ptr, NULL}
    ELSE {ptr}

\* the records reached from p by following next, at most n of them
RECURSIVE stack_list(_, _)
stack_list(p, n) ==
    IF p = NULL \/ n = 0 THEN << >>
    ELSE <<p>> \o stack_list(stack_records[p].next, n - 1)

\* heap_create
Init ==
    /\ grow_increment \in GrowIncrements
    /\ arena = << >>
    /\ regions = {}
    /\ blocks = {}
    /\ mutex = NoThread
    /\ pc = [t \in Threads |-> "idle"]
    /\ frame = [t \in Threads |-> NoFrame]
    /\ live = {}
    /\ stackmem = {}
    /\ calls = 0
    /\ snap = NoSnap
    /\ dpc = "none"
    /\ cursor = NULL
    /\ dnext = NULL
    /\ reports = << >>
    /\ released = << >>
    /\ heap_released = FALSE
    /\ dlog = << >>
    /\ use_after_free = FALSE
    /\ freed = {}
    /\ ecs_create
    /\ fs_create
    /\ game_none
    /\ trace_none
    /\ api_none
    /\ play_none
    /\ side_none
    /\ stack_none

\* slip: the padding alone is taken for the padded size
padded_size_padding_only(size, alignment) == alignment - (size % alignment)

\* heap_alloc lines 102-103
padded_size(size, alignment) == size + (alignment - (size % alignment))

\* slip: no room asked for the call stack
request_size_without_stack(padded) == padded

\* heap_alloc lines 104 and 126: the size asked of tlsf_memalign
request_size(padded) == padded + MAX_STACK_DEPTH * PointerSize

\* heap_alloc lines 107-109
arena_size(grow, padded) == Max(grow, padded * 2) + ArenaHeaderSize

\* slip: the new arena is never made the head of the chain
link_arena_dropped(chain, a) == chain

\* slip: the new arena is linked behind the older ones
link_arena_at_tail(chain, a) == chain \o <<a>>

\* heap_alloc lines 123-124
link_arena(chain, a) == <<a>> \o chain

\* heap_alloc line 131
stack_address(address, padded) == address + padded

\* memory_leak_walker line 151
callstack_address(ptr, size) == ptr + size - (MAX_STACK_DEPTH * PointerSize)

\* a caller enters heap_alloc(heap, size, alignment)
AllocCall(t) ==
    /\ dpc = "none" /\ pc[t] = "idle" /\ calls < MaxCalls
    /\ \E size \in Sizes, alignment \in Alignments :
          frame' = [frame EXCEPT ![t] = [NoFrame EXCEPT !.size = size,
                                                        !.alignment = alignment]]
    /\ pc' = [pc EXCEPT ![t] = "alloc_lock"]
    /\ calls' = calls + 1
    /\ UNCHANGED <<outside_heap, freed, grow_increment, arena, regions, blocks, mutex, live, stackmem,
                   snap, destroy_vars>>

\* line 100
AllocLock(t) ==
    /\ pc[t] = "alloc_lock"
    /\ mutex_lock(t)
    /\ snap' = [arena |-> arena, blocks |-> blocks, taken |-> TRUE]
    /\ pc' = [pc EXCEPT ![t] = "alloc_try"]
    /\ UNCHANGED <<outside_heap, freed, grow_increment, arena, regions, blocks, frame, live, stackmem,
                   calls, destroy_vars>>

\* the call tlsf_memalign(heap->tlsf, alignment, padded_size + ...) of lines
\* 104 and 126, continuing at `found` or at `failed`
Memalign(t, padded, found, failed) ==
    LET al == frame[t].alignment
        req == request_size(padded)
        cands == block_locate_free(blocks, memalign_search_size(al, req))
    IN \/ /\ cands = {}
          /\ frame' = [frame EXCEPT ![t].padded_size = padded, ![t].address = NULL]
          /\ pc' = [pc EXCEPT ![t] = failed]
          /\ UNCHANGED blocks
       \/ \E blk \in cands :
             LET r == tlsf_memalign(blocks, al, req, blk)
             IN /\ blocks' = r.blocks
                /\ frame' = [frame EXCEPT ![t].padded_size = padded,
                                          ![t].address = r.ptr]
                /\ pc' = [pc EXCEPT ![t] = found]

\* lines 102-105
AllocTry(t) ==
    /\ pc[t] = "alloc_try"
    /\ Memalign(t, padded_size(frame[t].size, frame[t].alignment),
                "alloc_capture", "alloc_grow")
    /\ UNCHANGED <<outside_heap, freed, grow_increment, arena, regions, mutex, live, stackmem, calls,
                   snap, destroy_vars>>

\* lines 107-112, VirtualAlloc succeeds
AllocGrow(t) ==
    /\ pc[t] = "alloc_grow"
    /\ LET bytes == arena_size(grow_increment, frame[t].padded_size)
                    + tlsf_pool_overhead
           base == VirtualAlloc(regions)
       IN /\ regions' = regions \cup {[base |-> base, bytes |-> bytes]}
          /\ frame' = [frame EXCEPT ![t].arena = base, ![t].grew = TRUE]
    /\ pc' = [pc EXCEPT ![t] = "alloc_add_pool"]
    /\ UNCHANGED <<outside_heap, freed, grow_increment, arena, blocks, mutex, live, stackmem, calls,
                   snap, destroy_vars>>

\* slip: the arena is linked before the result of VirtualAlloc is tested
AllocGrowFailsAfterLink(t) ==
    /\ pc[t] = "alloc_grow"
    /\ arena' = link_arena(arena, NULL)
    /\ pc' = [pc EXCEPT ![t] = "alloc_oom"]
    /\ UNCHANGED <<outside_heap, freed, grow_increment, regions, blocks, mutex, frame, live,
                   stackmem, calls, snap, destroy_vars>>

\* lines 107-117, VirtualAlloc fails: the diagnostic is printed
AllocGrowFails(t) ==
    /\ pc[t] = "alloc_grow"
    /\ pc' = [pc EXCEPT ![t] = "alloc_oom"]
    /\ UNCHANGED <<outside_heap, freed, grow_increment, arena, regions, blocks, mutex, frame, live,
                   stackmem, calls, snap, destroy_vars>>

\* line 118: return NULL
AllocOomReturn(t) ==
    /\ pc[t] = "alloc_oom"
    /\ pc' = [pc EXCEPT ![t] = "idle"]
    /\ frame' = [frame EXCEPT ![t] = NoFrame]
    /\ UNCHANGED <<outside_heap, freed, grow_increment, arena, regions, blocks, mutex, live, stackmem,
                   calls, snap, destroy_vars>>

\* lines 121-124
AllocAddPool(t) ==
    /\ pc[t] = "alloc_add_pool"
    /\ blocks' = tlsf_add_pool(blocks, frame[t].arena + ArenaHeaderSize,
                               arena_size(grow_increment, frame[t].padded_size))
    /\ arena' = link_arena(arena, frame[t].arena)
    /\ pc' = [pc EXCEPT ![t] = "alloc_retry"]
    /\ UNCHANGED <<outside_heap, freed, grow_increment, regions, mutex, frame, live, stackmem, calls,
                   snap, destroy_vars>>

\* line 126
AllocRetry(t) ==
    /\ pc[t] = "alloc_retry"
    /\ Memalign(t, frame[t].padded_size, "alloc_capture", "alloc_capture")
    /\ UNCHANGED <<outside_heap, freed, grow_increment, arena, regions, mutex, live, stackmem, calls,
                   snap, destroy_vars>>

\* lines 129-133: CaptureStackBackTrace writes MAX_STACK_DEPTH pointers at stack
AllocCapture(t) ==
    /\ pc[t] = "alloc_capture"
    /\ IF frame[t].address # NULL
       THEN LET stack == stack_address(frame[t].address, frame[t].padded_size)
            IN stackmem' = {m \in stackmem : m.addr + StackBytes <= stack
                                             \/ stack + StackBytes <= m.addr}
                           \cup {[addr |-> stack, ptr |-> frame[t].address]}
       ELSE stackmem' = stackmem
    /\ pc' = [pc EXCEPT ![t] = "alloc_unlock"]
    /\ UNCHANGED <<outside_heap, freed, grow_increment, arena, regions, blocks, mutex, frame, live,
                   calls, snap, destroy_vars>>

\* line 135
AllocUnlock(t) ==
    /\ pc[t] = "alloc_unlock"
    /\ mutex_unlock(t)
    /\ snap' = NoSnap
    /\ pc' = [pc EXCEPT ![t] = "alloc_return"]
    /\ UNCHANGED <<outside_heap, freed, grow_increment, arena, regions, blocks, frame, live, stackmem,
                   calls, destroy_vars>>

\* line 137: return address
AllocReturn(t) ==
    /\ pc[t] = "alloc_return"
    /\ live' = IF frame[t].address = NULL THEN live
               ELSE live \cup {[ptr |-> frame[t].address, size |-> frame[t].size,
                                alignment |-> frame[t].alignment]}
    /\ pc' = [pc EXCEPT ![t] = "idle"]
    /\ frame' = [frame EXCEPT ![t] = NoFrame]
    /\ UNCHANGED <<outside_heap, freed, grow_increment, arena, regions, blocks, mutex, stackmem, calls,
                   snap, destroy_vars>>

\* a caller enters heap_free(heap, address) with NULL or with a block it
\* holds, which it gives up (no double free, no foreign free)
FreeCall(t) ==
    /\ dpc = "none" /\ pc[t] = "idle" /\ calls < MaxCalls
    /\ \E p \in {NULL} \cup {a.ptr : a \in live} :
          /\ frame' = [frame EXCEPT ![t] = [NoFrame EXCEPT !.ptr = p]]
          /\ live' = {a \in live : a.ptr # p}
    /\ pc' = [pc EXCEPT ![t] = "free_lock"]
    /\ calls' = calls + 1
    /\ UNCHANGED <<outside_heap, freed, grow_increment, arena, regions, blocks, mutex, stackmem, snap,
                   destroy_vars>>

\* slip: heap_free does not take the mutex
FreeLockMissing(t) ==
    /\ pc[t] = "free_lock"
    /\ snap' = [arena |-> arena, blocks |-> blocks, taken |-> TRUE]
    /\ pc' = [pc EXCEPT ![t] = "free_tlsf"]
    /\ UNCHANGED <<outside_heap, freed, grow_increment, arena, regions, blocks, mutex, frame,
                   live, stackmem, calls, destroy_vars>>

\* line 142
FreeLock(t) ==
    /\ pc[t] = "free_lock"
    /\ mutex_lock(t)
    /\ snap' = [arena |-> arena, blocks |-> blocks, taken |-> TRUE]
    /\ pc' = [pc EXCEPT ![t] = "free_tlsf"]
    /\ UNCHANGED <<outside_heap, freed, grow_increment, arena, regions, blocks, frame, live, stackmem,
                   calls, destroy_vars>>

\* line 143
FreeTlsf(t) ==
    /\ pc[t] = "free_tlsf"
    /\ blocks' = tlsf_free(blocks, frame[t].ptr)
    /\ freed' = IF frame[t].ptr = NULL THEN freed ELSE freed \cup {frame[t].ptr}
    /\ pc' = [pc EXCEPT ![t] = "free_unlock"]
    /\ UNCHANGED <<outside_heap, grow_increment, arena, regions, mutex, frame, live, stackmem,
                   calls, snap, destroy_vars>>

\* slip: heap_free returns without releasing the mutex
FreeUnlockMissing(t) ==
    /\ pc[t] = "free_unlock"
    /\ pc' = [pc EXCEPT ![t] = "free_return"]
    /\ UNCHANGED <<outside_heap, freed, grow_increment, arena, regions, blocks, mutex, frame,
                   live, stackmem, calls, snap, destroy_vars>>

\* line 144
FreeUnlock(t) ==
    /\ pc[t] = "free_unlock"
    /\ mutex_unlock(t)
    /\ snap' = NoSnap
    /\ pc' = [pc EXCEPT ![t] = "free_return"]
    /\ UNCHANGED <<outside_heap, freed, grow_increment, arena, regions, blocks, frame, live, stackmem,
                   calls, destroy_vars>>

\* line 145
FreeReturn(t) ==
    /\ pc[t] = "free_return"
    /\ pc' = [pc EXCEPT ![t] = "idle"]
    /\ frame' = [frame EXCEPT ![t] = NoFrame]
    /\ UNCHANGED <<outside_heap, freed, grow_increment, arena, regions, blocks, mutex, live, stackmem,
                   calls, snap, destroy_vars>>

(***************************************************************************)
(* heap_destroy, called once no thread is inside the heap                  *)
(***************************************************************************)
\* arena->next of the arena at address a
arena_next(chain, a) ==
    LET at == {i \in 1..Len(chain) : chain[i] = a}
        i == CHOOSE x \in at : TRUE
    IN IF at = {} \/ i = Len(chain) THEN NULL ELSE chain[i + 1]

\* slip: the walker does not test `used`
memory_leak_walker_ignores_used(b) ==
    <<[ptr |-> b.ptr, size |-> b.size,
       callstack |-> callstack_address(b.ptr, b.size)]>>

\* memory_leak_walker lines 147-159 on one block of the walk
memory_leak_walker(b) ==
    IF ~b.free
    THEN <<[ptr |-> b.ptr, size |-> b.size,
            callstack |-> callstack_address(b.ptr, b.size)]>>
    ELSE << >>

RECURSIVE walk_entries(_)
walk_entries(bs) ==
    IF bs = << >> THEN << >>
    ELSE memory_leak_walker(Head(bs)) \o walk_entries(Tail(bs))

\* lines 163-165
DestroyStart ==
    /\ dpc = "none"
    /\ \A t \in Threads : pc[t] = "idle"
    /\ cursor' = IF arena = << >> THEN NULL ELSE Head(arena)
    /\ use_after_free' = (use_after_free \/ heap_released)
    /\ dpc' = "loop"
    /\ UNCHANGED <<outside_heap, freed, grow_increment, arena, regions, blocks, mutex, pc, frame, live,
                   stackmem, calls, snap, dnext, reports, released, heap_released,
                   dlog>>

\* lines 166-169: next is read, then the arena's pool is walked
DestroyWalk ==
    /\ dpc = "loop" /\ cursor # NULL
    /\ dnext' = arena_next(arena, cursor)
    /\ reports' = reports \o walk_entries(tlsf_walk_pool(blocks, cursor + ArenaHeaderSize))
    /\ use_after_free' = (use_after_free \/ heap_released
                          \/ \E i \in 1..Len(released) : released[i] = cursor)
    /\ dlog' = Append(dlog, [op |-> "walk", arena |-> cursor])
    /\ dpc' = "release"
    /\ UNCHANGED <<outside_heap, freed, grow_increment, arena, regions, blocks, mutex, pc, frame, live,
                   stackmem, calls, snap, cursor, released, heap_released>>

\* slip: arena->next is read after the arena was released
DestroyReleaseThenReadNext ==
    /\ dpc = "release"
    /\ released' = Append(released, cursor)
    /\ dlog' = Append(dlog, [op |-> "release", arena |-> cursor])
    /\ cursor' = arena_next(arena, cursor)
    /\ use_after_free' = TRUE
    /\ dpc' = "loop"
    /\ UNCHANGED <<outside_heap, freed, grow_increment, arena, regions, blocks, mutex, pc, frame,
                   live, stackmem, calls, snap, dnext, reports, heap_released>>

\* lines 170-171
DestroyRelease ==
    /\ dpc = "release"
    /\ released' = Append(released, cursor)
    /\ dlog' = Append(dlog, [op |-> "release", arena |-> cursor])
    /\ cursor' = dnext
    /\ dpc' = "loop"
    /\ UNCHANGED <<outside_heap, freed, grow_increment, arena, regions, blocks, mutex, pc, frame, live,
                   stackmem, calls, snap, dnext, reports, heap_released,
                   use_after_free>>

\* line 166 leaves the loop, line 174
DestroyMutex ==
    /\ dpc = "loop" /\ cursor = NULL
    /\ use_after_free' = (use_after_free \/ heap_released)
    /\ dlog' = Append(dlog, [op |-> "mutex_destroy", arena |-> NULL])
    /\ dpc' = "heap"
    /\ UNCHANGED <<outside_heap, freed, grow_increment, arena, regions, blocks, mutex, pc, frame, live,
                   stackmem, calls, snap, cursor, dnext, reports, released,
                   heap_released>>

\* line 176
DestroyHeap ==
    /\ dpc = "heap"
    /\ heap_released' = TRUE
    /\ dlog' = Append(dlog, [op |-> "release_heap", arena |-> NULL])
    /\ dpc' = "done"
    /\ UNCHANGED <<outside_heap, freed, grow_increment, arena, regions, blocks, mutex, pc, frame, live,
                   stackmem, calls, snap, cursor, dnext, reports, released,
                   use_after_free>>

(***************************************************************************)
(* Specifications                                                          *)
(***************************************************************************)
\* the steps of thread t inside a call that do not wait for the mutex
Running(t) ==
    \/ AllocTry(t) \/ AllocGrow(t) \/ AllocGrowFails(t) \/ AllocOomReturn(t)
    \/ AllocAddPool(t) \/ AllocRetry(t) \/ AllocCapture(t) \/ AllocUnlock(t)
    \/ AllocReturn(t) \/ FreeTlsf(t) \/ FreeUnlock(t) \/ FreeReturn(t)

Next ==
    \/ \E t \in Threads : AllocCall(t)
    \/ \E t \in Threads : AllocLock(t)
    \/ \E t \in Threads : AllocTry(t)
    \/ \E t \in Threads : AllocGrow(t)
    \/ \E t \in Threads : AllocGrowFails(t)
    \/ \E t \in Threads : AllocOomReturn(t)
    \/ \E t \in Threads : AllocAddPool(t)
    \/ \E t \in Threads : AllocRetry(t)
    \/ \E t \in Threads : AllocCapture(t)
    \/ \E t \in Threads : AllocUnlock(t)
    \/ \E t \in Threads : AllocReturn(t)
    \/ \E t \in Threads : FreeCall(t)
    \/ \E t \in Threads : FreeLock(t)
    \/ \E t \in Threads : FreeTlsf(t)
    \/ \E t \in Threads : FreeUnlock(t)
    \/ \E t \in Threads : FreeReturn(t)
    \/ DestroyStart
    \/ DestroyWalk
    \/ DestroyRelease
    \/ DestroyMutex
    \/ DestroyHeap

Spec == Init /\ [][Next]_vars

\* every thread inside a call keeps running, and a thread waiting for the
\* mutex gets it if the mutex is free again and again
FairSpec ==
    /\ Spec
    /\ \A t \in Threads : WF_vars(Running(t))
    /\ \A t \in Threads : SF_vars(AllocLock(t)) /\ SF_vars(FreeLock(t))

(***************************************************************************)
(* The runtime's operations as steps of the single gameplay thread         *)
(***************************************************************************)
RECURSIVE bumps_upto(_, _)
bumps_upto(S, n) == IF n < 0 THEN 0 ELSE S[n].gen + bumps_upto(S, n - 1)
\* generation bumps made so far
Bumps(S) == bumps_upto(S, MaxEntities - 1)

\* register_component_type, during initialization
EcsRegister ==
    /\ ecs_phase = "init"
    /\ Len(type_ids) < MaskWidth + MaxFailedRegistrations
    /\ LET r == ecs_register_component_type(ntypes)
       IN /\ ntypes' = r.ntypes
          /\ type_ids' = Append(type_ids, r.ret)
          /\ ecs_op' = [NoOp EXCEPT !.name = "register", !.ret = r.ret]
    /\ UNCHANGED <<outside_ecs, ecs_phase, slots, refs, removed, query>>

\* initialization is over: entities are created from here on
EcsBeginEntities ==
    /\ ecs_phase = "init"
    /\ ntypes \in TypeCountsAtStart
    /\ ecs_phase' = "run"
    /\ ecs_op' = NoOp
    /\ UNCHANGED <<outside_ecs, ntypes, type_ids, slots, refs, removed, query>>

\* entity_add(mask)
EntityAdd ==
    /\ ecs_phase = "run"
    /\ \E s \in EntitySlots : ~slots[s].live
    /\ Bumps(slots) < MaxBumps
    /\ \E mask \in Masks :
          LET r == ecs_entity_add(slots, mask)
          IN /\ slots' = r.slots
             /\ refs' = refs \cup {r.ref}
             /\ ecs_op' = [NoOp EXCEPT !.name = "entity_add", !.mask = mask,
                                       !.rref = r.ref]
    /\ query' = [query EXCEPT !.dirty = query.active]
    /\ UNCHANGED <<outside_ecs, ecs_phase, ntypes, type_ids, removed>>

\* entity_remove(ref) with a ref the caller got from entity_add
EntityRemove ==
    /\ ecs_phase = "run"
    /\ \E ref \in refs :
          /\ ecs_is_entity_ref_valid(slots, ref) => Bumps(slots) < MaxBumps
          /\ slots' = ecs_entity_remove(slots, ref)
          /\ removed' = IF ecs_is_entity_ref_valid(slots, ref)
                        THEN removed \cup {ref} ELSE removed
          /\ query' = [query EXCEPT !.dirty = query.dirty
                           \/ (query.active /\ ecs_is_entity_ref_valid(slots, ref))]
          /\ ecs_op' = [NoOp EXCEPT !.name = "entity_remove", !.ref = ref]
    /\ UNCHANGED <<outside_ecs, ecs_phase, ntypes, type_ids, refs>>

\* entity_get_component(ref, type, create_if_missing)
EntityGetComponent ==
    /\ ecs_phase = "run"
    /\ \E ref \in refs, type \in EntityTypes, cim \in BOOLEAN :
          \E v \in ecs_entity_get_component(slots, ref, type, cim) :
             ecs_op' = [NoOp EXCEPT !.name = "entity_get_component", !.ref = ref,
                                    !.type = type, !.cim = cim, !.ret = v]
    /\ UNCHANGED <<outside_ecs, ecs_phase, ntypes, type_ids, slots, refs, removed, query>>

\* update: no bookkeeping in the minimal design
EcsUpdate ==
    /\ ecs_phase = "run"
    /\ ecs_op' = [NoOp EXCEPT !.name = "update"]
    /\ UNCHANGED <<outside_ecs, ecs_phase, ntypes, type_ids, slots, refs, removed, query>>

\* query_create(mask), the head of a for-loop over a query
QueryCreate ==
    /\ ecs_phase = "run"
    /\ \E mask \in QueryMasks :
          LET c == ecs_query_create(slots, mask)
          IN query' = [active |-> TRUE, mask |-> mask, cursor |-> c,
                       visited |-> IF c < MaxEntities THEN <<c>> ELSE << >>,
                       dirty |-> FALSE, ended |-> ~(c < MaxEntities)]
    /\ ecs_op' = [NoOp EXCEPT !.name = "query_create"]
    /\ UNCHANGED <<outside_ecs, ecs_phase, ntypes, type_ids, slots, refs, removed>>

\* query_next, followed by the loop's query_is_valid test
QueryNext ==
    /\ ecs_phase = "run"
    /\ query.active
    /\ LET c == ecs_query_next(slots, query)
           q == [query EXCEPT !.cursor = c]
       IN query' = [q EXCEPT !.visited = IF ecs_query_is_valid(q)
                                         THEN Append(query.visited, c)
                                         ELSE query.visited,
                             !.ended = query.ended \/ ~ecs_query_is_valid(q)]
    /\ ecs_op' = [NoOp EXCEPT !.name = "query_next"]
    /\ UNCHANGED <<outside_ecs, ecs_phase, ntypes, type_ids, slots, refs, removed>>

EcsNext ==
    \/ EcsRegister
    \/ EcsBeginEntities
    \/ EntityAdd
    \/ EntityRemove
    \/ EntityGetComponent
    \/ EcsUpdate
    \/ QueryCreate
    \/ QueryNext

\* the runtime is created on a heap that is left alone
EcsInit == Init /\ grow_increment = 512

EcsSpec == EcsInit /\ [][EcsNext]_vars

(***************************************************************************)
(* The file system's operations and threads                                *)
(***************************************************************************)
\* the lowest unused work item
free_work == CHOOSE w \in WorkIds : work[w].state = "none"
                                   /\ \A o \in WorkIds : work[o].state = "none" => w <= o

\* a worker touches a work item: a race when its submitter may already read
\* or free it
Touch(w) == work_race' = (work_race \/ work[w].done \/ work[w].state = "destroyed")

\* fs_read
FsRead ==
    /\ fs_pc = "running"
    /\ \E w \in WorkIds : work[w].state = "none"
    /\ Len(file_queue) < queue_capacity
    /\ \E use_compression \in BOOLEAN :
          work' = [work EXCEPT ![free_work] = new_work("read", use_compression)]
    /\ file_queue' = queue_push(file_queue, "file", free_work)
    /\ UNCHANGED <<outside_fs, compression_queue, queue_destroyed, file_thread,
                   compression_thread, fs_pc, queue_misuse, work_race>>

\* fs_write
FsWrite ==
    /\ fs_pc = "running"
    /\ \E w \in WorkIds : work[w].state = "none"
    /\ \E use_compression \in BOOLEAN :
          /\ work' = [work EXCEPT ![free_work] = new_work("write", use_compression)]
          /\ IF use_compression
             THEN /\ Len(compression_queue) < queue_capacity
                  /\ compression_queue' = queue_push(compression_queue, "compression",
                                                     free_work)
                  /\ UNCHANGED file_queue
             ELSE /\ Len(file_queue) < queue_capacity
                  /\ file_queue' = queue_push(file_queue, "file", free_work)
                  /\ UNCHANGED compression_queue
    /\ UNCHANGED <<outside_fs, queue_destroyed, file_thread, compression_thread,
                   fs_pc, queue_misuse, work_race>>

\* fs_work_destroy: waits for done, then frees the work item
FsWorkDestroy ==
    /\ \E w \in WorkIds :
          /\ work[w].state = "submitted"
          /\ work[w].done
          /\ work' = [work EXCEPT ![w].state = "destroyed"]
    /\ UNCHANGED <<outside_fs, file_queue, compression_queue, queue_destroyed,
                   file_thread, compression_thread, fs_pc, queue_misuse, work_race>>

\* file_thread_func lines 261-265
FilePop ==
    /\ file_thread.pc = "pop"
    /\ file_queue # << >>
    /\ file_queue' = Tail(file_queue)
    /\ file_thread' = IF Head(file_queue) = NULL
                      THEN [pc |-> "exited", work |-> NULL]
                      ELSE [pc |-> "handle", work |-> Head(file_queue)]
    /\ queue_misuse' = (queue_misuse \/ "file" \in queue_destroyed)
    /\ UNCHANGED <<outside_fs, work, compression_queue, queue_destroyed,
                   compression_thread, fs_pc, work_race>>

\* file_thread_func lines 267-275: file_read or file_write on the item
FileHandle ==
    /\ file_thread.pc = "handle"
    /\ LET w == file_thread.work
       IN /\ \E r \in IF work[w].op = "read"
                      THEN {file_read(work[w], o) : o \in FileReadOutcomes}
                      ELSE {file_write(work[w], o) : o \in FileWriteOutcomes} :
                /\ "push" \in r.then => Len(compression_queue) < queue_capacity
                /\ work' = [work EXCEPT ![w] = IF "signal" \in r.then
                                                THEN event_signal(r.work)
                                                ELSE r.work]
                /\ compression_queue' = IF "push" \in r.then
                                        THEN queue_push(compression_queue,
                                                        "compression", w)
                                        ELSE compression_queue
                /\ queue_misuse' = (queue_misuse \/ ("push" \in r.then
                                        /\ "compression" \in queue_destroyed))
          /\ Touch(w)
    /\ file_thread' = Idle
    /\ UNCHANGED <<outside_fs, file_queue, queue_destroyed, compression_thread,
                   fs_pc>>

\* compression_thread_func lines 285-289
CompressionPop ==
    /\ compression_thread.pc = "pop"
    /\ compression_queue # << >>
    /\ compression_queue' = Tail(compression_queue)
    /\ compression_thread' = IF Head(compression_queue) = NULL
                             THEN [pc |-> "exited", work |-> NULL]
                             ELSE [pc |-> "handle", work |-> Head(compression_queue)]
    /\ queue_misuse' = (queue_misuse \/ "compression" \in queue_destroyed)
    /\ UNCHANGED <<outside_fs, work, file_queue, queue_destroyed, file_thread,
                   fs_pc, work_race>>

\* compression_thread_func lines 291-345
CompressionHandle ==
    /\ compression_thread.pc = "handle"
    /\ LET w == compression_thread.work
       IN /\ \E o \in Lz4Outcomes :
                LET r == compress(work[w], o)
                IN /\ "push" \in r.then => Len(file_queue) < queue_capacity
                   /\ work' = [work EXCEPT ![w] = IF "signal" \in r.then
                                                   THEN event_signal(r.work)
                                                   ELSE r.work]
                   /\ file_queue' = IF "push" \in r.then
                                    THEN queue_push(file_queue, "file", w)
                                    ELSE file_queue
                   /\ queue_misuse' = (queue_misuse \/ ("push" \in r.then
                                           /\ "file" \in queue_destroyed))
          /\ Touch(w)
    /\ compression_thread' = Idle
    /\ UNCHANGED <<outside_fs, compression_queue, queue_destroyed, file_thread,
                   fs_pc>>

\* fs_destroy line 63
FsDestroyPushFile ==
    /\ fs_pc = "running"
    /\ Len(file_queue) < queue_capacity
    /\ file_queue' = queue_push(file_queue, "file", NULL)
    /\ fs_pc' = "join_file"
    /\ UNCHANGED <<outside_fs, work, compression_queue, queue_destroyed,
                   file_thread, compression_thread, queue_misuse, work_race>>

\* fs_destroy lines 64-65: thread_destroy waits for the thread to return
FsDestroyFileQueue ==
    /\ fs_pc = "join_file"
    /\ file_thread.pc = "exited"
    /\ queue_destroyed' = queue_destroyed \cup {"file"}
    /\ fs_pc' = "push_compression"
    /\ UNCHANGED <<outside_fs, work, file_queue, compression_queue, file_thread,
                   compression_thread, queue_misuse, work_race>>

\* fs_destroy line 66
FsDestroyPushCompression ==
    /\ fs_pc = "push_compression"
    /\ Len(compression_queue) < queue_capacity
    /\ compression_queue' = queue_push(compression_queue, "compression", NULL)
    /\ fs_pc' = "join_compression"
    /\ UNCHANGED <<outside_fs, work, file_queue, queue_destroyed, file_thread,
                   compression_thread, queue_misuse, work_race>>

\* fs_destroy lines 67-69
FsDestroyCompressionQueue ==
    /\ fs_pc = "join_compression"
    /\ compression_thread.pc = "exited"
    /\ queue_destroyed' = queue_destroyed \cup {"compression"}
    /\ fs_pc' = "destroyed"
    /\ UNCHANGED <<outside_fs, work, file_queue, compression_queue, file_thread,
                   compression_thread, queue_misuse, work_race>>

FsNext ==
    \/ FsRead
    \/ FsWrite
    \/ FsWorkDestroy
    \/ FilePop
    \/ FileHandle
    \/ CompressionPop
    \/ CompressionHandle
    \/ FsDestroyPushFile
    \/ FsDestroyFileQueue
    \/ FsDestroyPushCompression
    \/ FsDestroyCompressionQueue

\* the file system is created on a heap that is left alone
FsInit == Init /\ grow_increment = 64

FsSpec == FsInit /\ [][FsNext]_vars

(***************************************************************************)
(* The gameplay layers step by step                                        *)
(***************************************************************************)
Program(fe, prog) == IF prog = "create" THEN create_program(fe) ELSE frame_program(fe)
CurItem == Program(frontend, g_pc.prog)[g_pc.item]
AtItem(op) == g_pc.prog \in {"create", "frame"} /\ CurItem.op = op

\* the component type ids the front-end holds for names
TypeIds(names) == {g_types[n] : n \in names}

\* on to the next call site: the next item, the first frame after creation,
\* the next frame
Advance ==
    IF g_pc.item < Len(Program(frontend, g_pc.prog))
    THEN /\ g_pc' = [g_pc EXCEPT !.item = g_pc.item + 1, !.k = 0, !.e = 0]
         /\ g_frame' = g_frame
    ELSE IF g_pc.prog = "create" \/ g_frame < MaxFrames
    THEN /\ g_pc' = [prog |-> "frame", item |-> 1, k |-> 0, e |-> 0]
         /\ g_frame' = g_frame + 1
    ELSE /\ g_pc' = [prog |-> "done", item |-> 0, k |-> 0, e |-> 0]
         /\ g_frame' = g_frame

Top == g_stack[Len(g_stack)]
Pop == SubSeq(g_stack, 1, Len(g_stack) - 1)
TopValid == g_stack # << >> /\ ecs_query_is_valid(Top)
TopGets == query_loop(Top.loop).gets

\* frogger_game_create or lua_project_create starts: ecs_create
GameCreate ==
    /\ frontend = "none"
    /\ frontend' \in FrontEnds
    /\ g_pc' = [prog |-> "create", item |-> 1, k |-> 0, e |-> 0]
    /\ UNCHANGED <<outside_game, g_frame, g_types, g_ntypes, g_slots, g_cur, g_ents,
                   g_stack, g_call>>

\* one ecs_register_component_type call of the front-end
GameRegister ==
    /\ AtItem("register")
    /\ LET r == ecs_register_component_type(g_ntypes)
       IN /\ g_ntypes' = r.ntypes
          /\ g_types' = [g_types EXCEPT ![CurItem.arg] = r.ret]
          /\ g_call' = [NoCall EXCEPT !.name = "register", !.type = r.ret]
    /\ Advance
    /\ UNCHANGED <<outside_game, frontend, g_slots, g_cur, g_ents, g_stack>>

\* ecs_update at the start of a frame
GameUpdate ==
    /\ AtItem("update")
    /\ g_call' = [NoCall EXCEPT !.name = "update"]
    /\ Advance
    /\ UNCHANGED <<outside_game, frontend, g_types, g_ntypes, g_slots, g_cur, g_ents,
                   g_stack>>

\* the ecs_entity_add of a spawn function
GameEntityAdd ==
    /\ AtItem("spawn") /\ g_pc.k = 0
    /\ \E s \in EntitySlots : ~g_slots[s].live
    /\ LET asked == TypeIds(spawn_mask(frontend, CurItem.arg))
           mask == IF frontend = "lua" THEN add_entity_mask(asked) ELSE asked
           r == ecs_entity_add(g_slots, mask)
       IN /\ g_slots' = r.slots
          /\ g_cur' = r.ref
          /\ g_ents' = [g_ents EXCEPT ![CurItem.arg] = Append(@, r.ref)]
          /\ g_call' = [NoCall EXCEPT !.name = "entity_add", !.mask = mask,
                                      !.ref = r.ref]
    /\ g_pc' = [g_pc EXCEPT !.k = 1]
    /\ UNCHANGED <<outside_game, frontend, g_frame, g_types, g_ntypes, g_stack>>

\* an ecs_entity_get_component(..., true) of a spawn function
GameSpawnGetComponent ==
    /\ AtItem("spawn") /\ g_pc.k >= 1
    /\ LET gets == spawn_gets(frontend, CurItem.arg)
           type == g_types[gets[g_pc.k]]
       IN /\ ecs_entity_get_component(g_slots, g_cur, type, TRUE) # {}
          /\ g_call' = [NoCall EXCEPT !.name = "entity_get_component",
                                      !.type = type, !.ref = g_cur]
          /\ IF g_pc.k < Len(gets)
             THEN g_pc' = [g_pc EXCEPT !.k = g_pc.k + 1] /\ g_frame' = g_frame
             ELSE Advance
    /\ UNCHANGED <<outside_game, frontend, g_types, g_ntypes, g_slots, g_cur, g_ents,
                   g_stack>>

\* the script's entity:GetComponent(name) on the entities it keeps
GameEntitiesGetComponent ==
    /\ AtItem("entities")
    /\ g_pc.e < Len(g_ents[CurItem.arg])
    /\ g_pc.k < Len(CurItem.gets)
    /\ LET ref == g_ents[CurItem.arg][g_pc.e + 1]
           type == g_types[CurItem.gets[g_pc.k + 1]]
       IN /\ ecs_entity_get_component(g_slots, ref, type, TRUE) # {}
          /\ g_call' = [NoCall EXCEPT !.name = "entity_get_component",
                                      !.type = type, !.ref = ref]
    /\ g_pc' = [g_pc EXCEPT !.k = g_pc.k + 1]
    /\ UNCHANGED <<outside_game, frontend, g_frame, g_types, g_ntypes, g_slots, g_cur,
                   g_ents, g_stack>>

\* the script's loop goes to its next entity, or ends
GameEntitiesNext ==
    /\ AtItem("entities")
    /\ g_pc.k = Len(CurItem.gets)
    /\ IF g_pc.e + 1 < Len(g_ents[CurItem.arg])
       THEN g_pc' = [g_pc EXCEPT !.k = 0, !.e = g_pc.e + 1] /\ g_frame' = g_frame
       ELSE Advance
    /\ UNCHANGED <<outside_game, frontend, g_types, g_ntypes, g_slots, g_cur, g_ents,
                   g_stack, g_call>>

\* the script's did_player_collide_with_traffic returns true
GameEntitiesBreak ==
    /\ AtItem("entities")
    /\ CurItem.brk
    /\ g_pc.k = Len(CurItem.gets)
    /\ Advance
    /\ UNCHANGED <<outside_game, frontend, g_types, g_ntypes, g_slots, g_cur, g_ents,
                   g_stack, g_call>>

\* ecs_query_create at the head of a for-loop, at the top level of a system
\* or in the body of another loop
GameQueryCreate ==
    /\ AtItem("query")
    /\ \E loop \in {"update_players", "did_player_collide_with_traffic",
                    "update_traffic", "draw_cameras", "draw_models",
                    "lua_draw_cameras", "lua_draw_models"} :
          /\ \/ /\ g_stack = << >> /\ g_pc.k = 0
                /\ loop = CurItem.arg
             \/ /\ TopValid
                /\ Top.k = Len(TopGets)
                /\ ~Top.inner_done
                /\ loop = query_loop(Top.loop).inner
          /\ LET mask == TypeIds(query_loop(loop).mask)
                 q == [loop |-> loop, mask |-> mask,
                       cursor |-> ecs_query_create(g_slots, mask), k |-> 0,
                       inner_done |-> FALSE]
             IN /\ g_stack' = IF g_stack = << >> THEN <<q>>
                              ELSE Append([g_stack EXCEPT ![Len(g_stack)].inner_done = TRUE], q)
                /\ g_call' = [NoCall EXCEPT !.name = "query_create", !.mask = mask]
    /\ g_pc' = [g_pc EXCEPT !.k = 1]
    /\ UNCHANGED <<outside_game, frontend, g_frame, g_types, g_ntypes, g_slots, g_cur,
                   g_ents>>

\* an ecs_query_get_component in the body of a loop
GameQueryGetComponent ==
    /\ TopValid
    /\ Top.k < Len(TopGets)
    /\ g_call' = [NoCall EXCEPT !.name = "query_get_component",
                                !.type = g_types[TopGets[Top.k + 1]],
                                !.mask = Top.mask,
                                !.ref = [slot |-> Top.cursor,
                                         gen |-> g_slots[Top.cursor].gen]]
    /\ g_stack' = [g_stack EXCEPT ![Len(g_stack)].k = Top.k + 1]
    /\ UNCHANGED <<outside_game, frontend, g_pc, g_frame, g_types, g_ntypes, g_slots,
                   g_cur, g_ents>>

\* ecs_query_next at the end of the body
GameQueryNext ==
    /\ TopValid
    /\ Top.k = Len(TopGets)
    /\ query_loop(Top.loop).inner = "none" \/ Top.inner_done
    /\ g_stack' = [g_stack EXCEPT ![Len(g_stack)] =
                      [Top EXCEPT !.cursor = ecs_query_next(g_slots, Top), !.k = 0,
                                  !.inner_done = FALSE]]
    /\ g_call' = [NoCall EXCEPT !.name = "query_next", !.mask = Top.mask]
    /\ UNCHANGED <<outside_game, frontend, g_pc, g_frame, g_types, g_ntypes, g_slots,
                   g_cur, g_ents>>

\* did_player_collide_with_traffic returns true from inside its loop
GameQueryBreak ==
    /\ TopValid
    /\ query_loop(Top.loop).may_break
    /\ Top.k = Len(TopGets)
    /\ Len(g_stack) > 1
    /\ g_stack' = Pop
    /\ UNCHANGED <<outside_game, frontend, g_pc, g_frame, g_types, g_ntypes, g_slots,
                   g_cur, g_ents, g_call>>

\* ecs_query_is_valid is false: the loop is left
GameQueryEnd ==
    /\ g_stack # << >>
    /\ ~ecs_query_is_valid(Top)
    /\ g_stack' = Pop
    /\ IF Len(g_stack) = 1 THEN Advance ELSE UNCHANGED <<g_pc, g_frame>>
    /\ UNCHANGED <<outside_game, frontend, g_types, g_ntypes, g_slots, g_cur, g_ents,
                   g_call>>

GameNext ==
    \/ GameCreate
    \/ GameRegister
    \/ GameUpdate
    \/ GameEntityAdd
    \/ GameSpawnGetComponent
    \/ GameEntitiesGetComponent
    \/ GameEntitiesNext
    \/ GameEntitiesBreak
    \/ GameQueryCreate
    \/ GameQueryGetComponent
    \/ GameQueryNext
    \/ GameQueryBreak
    \/ GameQueryEnd

\* the games run on a heap that is left alone
GameInit == Init /\ grow_increment = 64

GameSpec == GameInit /\ [][GameNext]_vars

(***************************************************************************)
(* The trace recorder step by step                                         *)
(***************************************************************************)
\* trace_create(heap, event_capacity)
TraceCreate ==
    /\ trace_capacity = 0
    /\ trace_capacity' \in 1..MaxCapacity
    /\ UNCHANGED <<outside_trace, trace_enabled, duration_count, trace_logs_count,
                   trace_calls, trace_touched, durations, trace_logs, captures,
                   open_names, nested, trace_end, trace_emitted>>

\* trace_capture_start
TraceCaptureStart ==
    /\ trace_capacity > 0
    /\ ~trace_enabled
    /\ captures < MaxCaptures
    /\ trace_enabled' = TRUE
    /\ captures' = captures + 1
    /\ trace_touched' = {}
    /\ UNCHANGED <<outside_trace, trace_capacity, duration_count, trace_logs_count,
                   trace_calls, durations, trace_logs, open_names, nested,
                   trace_end, trace_emitted>>

\* trace_duration_push(trace, name) on thread t
TraceDurationPush(t) ==
    /\ trace_capacity > 0
    /\ trace_calls < MaxTraceCalls
    /\ trace_calls' = trace_calls + 1
    /\ \E name \in TraceNames :
          /\ open_names' = [open_names EXCEPT ![t] = Append(@, name)]
          /\ IF ~trace_enabled \/ duration_count[t] = trace_capacity
             THEN /\ trace_touched' = {}
                  /\ UNCHANGED <<duration_count, trace_logs_count, durations,
                                 trace_logs>>
             ELSE \E index \in atomic_increment(trace_logs_count) :
                     LET dur_index == duration_count[t]
                     IN /\ duration_count' = [duration_count EXCEPT ![t] = dur_index + 1]
                        /\ durations' = [durations EXCEPT ![t][dur_index] = name]
                        /\ trace_logs_count' = trace_logs_count + 1
                        /\ trace_logs' =
                              IF index < trace_capacity
                              THEN [trace_logs EXCEPT ![index] =
                                       [name |-> name, ph |-> "B", tid |-> t,
                                        capture |-> captures]]
                              ELSE trace_logs
                        /\ trace_touched' =
                              {Slot("durations", trace_event_at(dur_index),
                                    trace_capacity)}
                              \cup IF index < trace_capacity
                                   THEN {Slot("trace_logs", trace_event_at(index),
                                              2 * trace_capacity)}
                                   ELSE {}
    /\ UNCHANGED <<outside_trace, trace_capacity, trace_enabled, captures, nested,
                   trace_end, trace_emitted>>

\* trace_duration_pop on thread t
TraceDurationPop(t) ==
    /\ trace_capacity > 0
    /\ trace_calls < MaxTraceCalls
    /\ trace_calls' = trace_calls + 1
    /\ open_names' = [open_names EXCEPT ![t] =
                         IF @ = << >> THEN @ ELSE SubSeq(@, 1, Len(@) - 1)]
    /\ nested' = [nested EXCEPT ![t] = @ /\ open_names[t] # << >>]
    /\ IF ~trace_enabled
       THEN /\ trace_touched' = {}
            /\ UNCHANGED <<duration_count, trace_logs_count, trace_logs, trace_end>>
       ELSE \E index \in atomic_increment(trace_logs_count) :
               LET dur_index == duration_count[t] - 1
                   name == begin_name(t, dur_index)
                   expected == IF open_names[t] = << >> THEN ""
                               ELSE open_names[t][Len(open_names[t])]
                   wrote == index < trace_capacity
               IN /\ duration_count' = [duration_count EXCEPT ![t] = dur_index]
                  /\ trace_logs_count' = trace_logs_count + 1
                  /\ trace_logs' =
                        IF wrote
                        THEN [trace_logs EXCEPT ![index] =
                                 [name |-> name, ph |-> "E", tid |-> t,
                                  capture |-> captures]]
                        ELSE trace_logs
                  /\ trace_end' = [tid |-> t, written |-> wrote,
                                   name |-> IF wrote THEN name ELSE "",
                                   expected |-> expected]
                  /\ trace_touched' =
                        IF wrote
                        THEN {Slot("durations", trace_event_at(dur_index), trace_capacity),
                              Slot("trace_logs", trace_event_at(index), 2 * trace_capacity)}
                        ELSE {}
    /\ UNCHANGED <<outside_trace, trace_capacity, trace_enabled, durations, captures,
                   trace_emitted>>

\* trace_capture_stop: format_output twice, then the file is written
TraceCaptureStop ==
    /\ trace_enabled
    /\ trace_enabled' = FALSE
    /\ trace_touched' = format_output.touched
    /\ trace_emitted' = format_output.emitted
    /\ UNCHANGED <<outside_trace, trace_capacity, duration_count, trace_logs_count,
                   trace_calls, durations, trace_logs, captures, open_names, nested,
                   trace_end>>

TraceNext ==
    \/ TraceCreate
    \/ TraceCaptureStart
    \/ \E t \in TraceThreads : TraceDurationPush(t)
    \/ \E t \in TraceThreads : TraceDurationPop(t)
    \/ TraceCaptureStop

\* the recorder runs on a heap that is left alone
TraceInit == Init /\ grow_increment = 64

TraceSpec == TraceInit /\ [][TraceNext]_vars

(***************************************************************************)
(* The script interface step by step                                       *)
(***************************************************************************)
\* a script computes (1 << id) | ... and calls ECS:AddEntity with it
ScriptAddEntity ==
    /\ api_pc # "called"
    /\ script_mask' \in SUBSET ScriptIds
    /\ api_pc' = "called"
    /\ UNCHANGED <<outside_api, entity_mask>>

\* add_entity: the mask goes through int to ecs_entity_add
AddEntity ==
    /\ api_pc = "called"
    /\ entity_mask' = add_entity_mask(script_mask)
    /\ api_pc' = "added"
    /\ UNCHANGED <<outside_api, script_mask>>

ApiNext ==
    \/ ScriptAddEntity
    \/ AddEntity

\* the interface runs on a heap that is left alone
ApiInit == Init /\ grow_increment = 64

ApiSpec == ApiInit /\ [][ApiNext]_vars

(***************************************************************************)
(* The Frogger rules frame by frame                                        *)
(***************************************************************************)
\* frogger_game_create, or the script's create_game
PlayCreate ==
    /\ play_frontend = "none"
    /\ play_frontend' \in FrontEnds
    /\ player' = spawn_player
    /\ car' = spawn_traffic
    /\ UNCHANGED <<outside_play, play_last>>

\* one frame: frogger_game_update updates the player and then the traffic,
\* the script's RenderStepped the traffic and then the player
PlayFrame ==
    /\ play_frontend # "none"
    /\ \E key_mask \in Keys, dt \in DeltaTimes :
          LET seen == IF play_frontend = "c" THEN car ELSE update_traffic(car, dt)
              u == update_players(player, seen, key_mask, dt)
          IN /\ player' = u.moved
             /\ car' = update_traffic(car, dt)
             /\ play_last' = [called |-> TRUE, y |-> player.y, z |-> player.z,
                              car_y |-> seen.y, car_z |-> seen.z,
                              reset_y |-> u.reset.y, reset_z |-> u.reset.z,
                              dy |-> u.dy, dz |-> u.dz]
    /\ UNCHANGED <<outside_play, play_frontend>>

PlayNext ==
    \/ PlayCreate
    \/ PlayFrame

\* the game runs on a heap that is left alone
PlayInit == Init /\ grow_increment = 64

PlaySpec == PlayInit /\ [][PlayNext]_vars

(***************************************************************************)
(* The side-list heap call by call; it has no lock, so one caller          *)
(***************************************************************************)
\* heap_create(grow_increment)
SideCreate ==
    /\ side_grow = 0
    /\ side_grow' \in GrowIncrements
    /\ UNCHANGED <<outside_side, side_arena, side_regions, side_blocks,
                   side_callstacks, side_live, side_calls, side_reports>>

\* heap_alloc(heap, size, alignment); the caller keeps the address.  With
\* `traced` false a VirtualAlloc of get_backtrace fails and no call stack is
\* kept for the call
SideAlloc ==
    /\ side_grow > 0 /\ side_reports = << >>
    /\ side_calls < MaxSideCalls
    /\ side_calls' = side_calls + 1
    /\ \E size \in Sizes, alignment \in Alignments, oom \in BOOLEAN, traced \in BOOLEAN :
          \E r \in side_heap_alloc(size, alignment, oom) :
             /\ side_blocks' = r.blocks
             /\ side_arena' = r.chain
             /\ side_regions' = r.regions
             /\ side_callstacks' =
                   IF r.arena = NULL \/ ~traced THEN side_callstacks
                   ELSE get_backtrace(side_callstacks, r.arena, side_calls + 1)
             /\ side_live' =
                   IF r.ptr = NULL THEN side_live
                   ELSE side_live \cup {[ptr |-> r.ptr, callstack |-> side_calls + 1]}
    /\ UNCHANGED <<outside_side, side_grow, side_reports>>

\* heap_free(heap, address) of an address the caller holds
SideFree ==
    /\ side_reports = << >>
    /\ side_calls < MaxSideCalls
    /\ side_calls' = side_calls + 1
    /\ \E a \in side_live :
          /\ side_blocks' = tlsf_free(side_blocks, a.ptr)
          /\ side_live' = side_live \ {a}
    /\ UNCHANGED <<outside_side, side_grow, side_arena, side_regions,
                   side_callstacks, side_reports>>

\* heap_destroy(heap)
SideDestroy ==
    /\ side_grow > 0 /\ side_reports = << >>
    /\ side_reports' = side_heap_destroy(side_arena) \o Destroyed
    /\ UNCHANGED <<outside_side, side_grow, side_arena, side_regions, side_blocks,
                   side_callstacks, side_live, side_calls>>

SideNext ==
    \/ SideCreate
    \/ SideAlloc
    \/ SideFree
    \/ SideDestroy

\* only the side-list heap runs
SideInit == Init /\ grow_increment = 64

SideSpec == SideInit /\ [][SideNext]_vars

(***************************************************************************)
(* get_thread_stack statement by statement, as trace_duration_push and     *)
(* trace_duration_pop call it                                              *)
(***************************************************************************)
Alive == \A u \in StackThreads : stack_pc[u] # "crashed"

\* lines 125, 159 and 47-48: the caller reads trace->thread_stacks
StackCall(t) ==
    /\ Alive /\ stack_pc[t] = "idle"
    /\ stack_calls < MaxStackCalls
    /\ stack_calls' = stack_calls + 1
    /\ \E head \in unlocked_read(thread_stacks, t) :
          stack_frame' = [stack_frame EXCEPT ![t].this = head]
    /\ stack_pc' = [stack_pc EXCEPT ![t] = "search"]
    /\ UNCHANGED <<outside_stack, thread_stacks, stack_records, stack_mutex,
                   stack_appended>>

\* lines 49-57: a record of another thread, on to the next
StackSearchStep(t) ==
    /\ Alive /\ stack_pc[t] = "search"
    /\ stack_frame[t].this # NULL
    /\ stack_records[stack_frame[t].this].tid # t
    /\ \E next \in unlocked_read(stack_records[stack_frame[t].this].next, t) :
          stack_frame' = [stack_frame EXCEPT ![t].this = next]
    /\ UNCHANGED <<outside_stack, thread_stacks, stack_records, stack_mutex, stack_pc,
                   stack_calls, stack_appended>>

\* lines 51-54 and 81: the record of the thread is found and returned
StackFound(t) ==
    /\ Alive /\ stack_pc[t] = "search"
    /\ stack_frame[t].this # NULL
    /\ stack_records[stack_frame[t].this].tid = t
    /\ stack_pc' = [stack_pc EXCEPT ![t] = "idle"]
    /\ stack_frame' = [stack_frame EXCEPT ![t] = NoStackFrame]
    /\ UNCHANGED <<outside_stack, thread_stacks, stack_records, stack_mutex,
                   stack_calls, stack_appended>>

\* lines 59-65: no record found, a new one is allocated and filled in
StackCreate(t) ==
    /\ Alive /\ stack_pc[t] = "search"
    /\ stack_frame[t].this = NULL
    /\ stack_records' = Append(stack_records, [tid |-> t, next |-> NULL])
    /\ stack_frame' = [stack_frame EXCEPT ![t].this = Len(stack_records) + 1]
    /\ stack_pc' = [stack_pc EXCEPT ![t] = "lock"]
    /\ UNCHANGED <<outside_stack, thread_stacks, stack_mutex, stack_calls,
                   stack_appended>>

\* lines 61-62: heap_alloc returns NULL and the write to this->next faults
StackAllocFails(t) ==
    /\ Alive /\ stack_pc[t] = "search"
    /\ stack_frame[t].this = NULL
    /\ stack_pc' = [stack_pc EXCEPT ![t] = "crashed"]
    /\ UNCHANGED <<outside_stack, thread_stacks, stack_records, stack_mutex,
                   stack_frame, stack_calls, stack_appended>>

\* a thread that goes on without the mutex
StackLockMissing(t) ==
    /\ Alive /\ stack_pc[t] = "lock"
    /\ stack_mutex' = t
    /\ stack_pc' = [stack_pc EXCEPT ![t] = "locked"]
    /\ UNCHANGED <<outside_stack, thread_stacks, stack_records, stack_frame,
                   stack_calls, stack_appended>>

\* line 67: mutex_lock(trace->add_thread_mutex)
StackLock(t) ==
    /\ Alive /\ stack_pc[t] = "lock"
    /\ stack_mutex = NoThread
    /\ stack_mutex' = t
    /\ stack_pc' = [stack_pc EXCEPT ![t] = "locked"]
    /\ UNCHANGED <<outside_stack, thread_stacks, stack_records, stack_frame,
                   stack_calls, stack_appended>>

\* lines 68-71: the list is empty, the record becomes its head
StackLinkHead(t) ==
    /\ Alive /\ stack_pc[t] = "locked"
    /\ thread_stacks = NULL
    /\ thread_stacks' = stack_frame[t].this
    /\ stack_appended' = stack_appended \cup {stack_frame[t].this}
    /\ stack_pc' = [stack_pc EXCEPT ![t] = "unlock"]
    /\ UNCHANGED <<outside_stack, stack_records, stack_mutex, stack_frame,
                   stack_calls>>

\* lines 72-74: itr starts at the head
StackWalkStart(t) ==
    /\ Alive /\ stack_pc[t] = "locked"
    /\ thread_stacks # NULL
    /\ stack_frame' = [stack_frame EXCEPT ![t].itr = thread_stacks]
    /\ stack_pc' = [stack_pc EXCEPT ![t] = "walk"]
    /\ UNCHANGED <<outside_stack, thread_stacks, stack_records, stack_mutex,
                   stack_calls, stack_appended>>

\* lines 75-78: on to the next record
StackWalkStep(t) ==
    /\ Alive /\ stack_pc[t] = "walk"
    /\ stack_records[stack_frame[t].itr].next # NULL
    /\ stack_frame' = [stack_frame EXCEPT
                         ![t].itr = stack_records[stack_frame[t].itr].next]
    /\ UNCHANGED <<outside_stack, thread_stacks, stack_records, stack_mutex, stack_pc,
                   stack_calls, stack_appended>>

\* line 79: the record is linked behind the last one
StackLinkTail(t) ==
    /\ Alive /\ stack_pc[t] = "walk"
    /\ stack_records[stack_frame[t].itr].next = NULL
    /\ stack_records' = [stack_records EXCEPT
                           ![stack_frame[t].itr].next = stack_frame[t].this]
    /\ stack_appended' = stack_appended \cup {stack_frame[t].this}
    /\ stack_pc' = [stack_pc EXCEPT ![t] = "unlock"]
    /\ UNCHANGED <<outside_stack, thread_stacks, stack_mutex, stack_frame,
                   stack_calls>>

\* lines 81-84: mutex_unlock and return
StackUnlock(t) ==
    /\ Alive /\ stack_pc[t] = "unlock"
    /\ stack_mutex' = NoThread
    /\ stack_pc' = [stack_pc EXCEPT ![t] = "idle"]
    /\ stack_frame' = [stack_frame EXCEPT ![t] = NoStackFrame]
    /\ UNCHANGED <<outside_stack, thread_stacks, stack_records, stack_calls,
                   stack_appended>>

StackNext ==
    \E t \in StackThreads :
        \/ StackCall(t)
        \/ StackSearchStep(t)
        \/ StackFound(t)
        \/ StackCreate(t)
        \/ StackAllocFails(t)
        \/ StackLock(t)
        \/ StackLinkHead(t)
        \/ StackWalkStart(t)
        \/ StackWalkStep(t)
        \/ StackLinkTail(t)
        \/ StackUnlock(t)

\* only the threads of the trace system run
StackInit == Init /\ grow_increment = 64

StackSpec == StackInit /\ [][StackNext]_vars

(***************************************************************************)
(* Properties                                                              *)
(***************************************************************************)
\* thread t is between mutex_lock and mutex_unlock
InCritical(t) ==
    pc[t] \in {"alloc_try", "alloc_grow", "alloc_oom", "alloc_add_pool",
               "alloc_retry", "alloc_capture", "alloc_unlock", "free_tlsf",
               "free_unlock"}

\* the next step of thread t calls tlsf_memalign, tlsf_add_pool or tlsf_free,
\* or reads or writes heap->arena
TouchesHeap(t) ==
    pc[t] \in {"alloc_try", "alloc_add_pool", "alloc_retry", "free_tlsf"}

\* C1: at most one thread is between mutex_lock and mutex_unlock, and a
\* thread about to access the free-list allocator or the arena chain holds
\* the heap's mutex.
C1_MutualExclusion ==
    /\ \A t, u \in Threads : InCritical(t) /\ InCritical(u) => t = u
    /\ \A t \in Threads : InCritical(t) => mutex = t
    /\ \A t \in Threads : TouchesHeap(t) => mutex = t

C1_Witness ==
    \E t, u \in Threads :
        /\ t # u
        /\ pc[t] = "free_tlsf" /\ frame[t].ptr # NULL /\ mutex = t
        /\ pc[u] = "alloc_lock"

\* C2: under fair scheduling every heap_alloc and heap_free call that was
\* entered eventually returns.
C2_EveryCallReturns ==
    \A t \in Threads : (pc[t] # "idle") ~> (pc[t] = "idle")

\* the arenas of the chain whose memory holds all of [p, p + size)
ArenasHolding(p, size) ==
    {i \in 1..Len(arena) :
        \E r \in regions : /\ r.base = arena[i]
                           /\ r.base <= p
                           /\ p + size <= r.base + r.bytes}

\* C3: heap_alloc returns null or a pointer that is a multiple of the
\* alignment and whose range [p, p + size) lies in exactly one arena of the
\* heap's chain.
C3_AlignedInsideOneArena ==
    \A t \in Threads :
        pc[t] = "alloc_return" /\ frame[t].address # NULL =>
            /\ frame[t].address % frame[t].alignment = 0
            /\ Cardinality(ArenasHolding(frame[t].address, frame[t].size)) = 1

C3_Witness ==
    \E t \in Threads :
        /\ pc[t] = "alloc_return" /\ frame[t].address # NULL
        /\ frame[t].alignment = 64
        /\ Len(arena) >= 2
        /\ frame[t].address < arena[1]

\* the allocations callers hold, and those heap_alloc is about to return
Held ==
    {[who |-> 0, ptr |-> a.ptr, size |-> a.size] : a \in live}
    \cup {[who |-> t, ptr |-> frame[t].address, size |-> frame[t].size] :
            t \in {u \in Threads : pc[u] = "alloc_return"
                                   /\ frame[u].address # NULL}}

\* C4: the live allocations have pairwise distinct pointers and pairwise
\* disjoint payload ranges.
C4_LiveDisjoint ==
    /\ \A a, b \in live : a.ptr = b.ptr => a = b
    /\ \A a, b \in Held :
          a # b => /\ a.ptr # b.ptr
                   /\ (a.ptr + a.size <= b.ptr \/ b.ptr + b.size <= a.ptr)

C4_Witness ==
    \E a, b \in live :
        /\ a.ptr # b.ptr
        /\ \E i, j \in 1..Len(arena) :
              /\ i # j
              /\ arena[i] <= a.ptr /\ a.ptr < arena[i] + AllocationGranularity
              /\ arena[j] <= b.ptr /\ b.ptr < arena[j] + AllocationGranularity

\* C5: when the first attempt failed and the new arena was reserved, the
\* retry succeeds.
C5_GrowthSatisfiesRequest ==
    \A t \in Threads :
        pc[t] = "alloc_capture" /\ frame[t].grew => frame[t].address # NULL

\* C6: when the reservation of the new arena fails, heap_alloc is about to
\* return null without a retry, and the arena chain and the blocks are
\* those it found when it entered.
C6_OomLeavesHeapUnchanged ==
    \A t \in Threads :
        pc[t] = "alloc_oom" =>
            /\ frame[t].address = NULL
            /\ ~frame[t].grew
            /\ snap.taken /\ arena = snap.arena /\ blocks = snap.blocks

C6_Witness ==
    \E t \in Threads :
        /\ pc[t] = "alloc_oom"
        /\ arena # << >>
        /\ live # {}

\* C7: heap_destroy prints exactly one leak entry for each live block and
\* none for any other block.
C7_OneLeakEntryPerLiveBlock ==
    dpc = "done" =>
        /\ Len(reports) = Cardinality(live)
        /\ {reports[i].ptr : i \in 1..Len(reports)} = {a.ptr : a \in live}
        /\ \A i, j \in 1..Len(reports) : reports[i].ptr = reports[j].ptr => i = j

C7_Witness ==
    /\ dpc = "done"
    /\ Len(reports) = 1
    /\ \E p \in freed : \A a \in live : a.ptr # p

\* C8: the size of each leak entry is the size requested for that block.
C8_LeakEntryHasRequestedSize ==
    dpc = "done" =>
        \A i \in 1..Len(reports) :
            \E a \in live : a.ptr = reports[i].ptr /\ a.size = reports[i].size

\* C9: heap_free(NULL) leaves the blocks and the arena chain as it found
\* them and has released the mutex when it returns.
C9_FreeNullIsNoOp ==
    \A t \in Threads :
        frame[t].ptr = NULL =>
            /\ pc[t] = "free_unlock" =>
                  snap.taken /\ blocks = snap.blocks /\ arena = snap.arena
            /\ pc[t] = "free_return" => mutex # t

C9_Witness ==
    \E t \in Threads :
        /\ pc[t] = "free_return" /\ frame[t].ptr = NULL
        /\ \E b \in blocks : ~b.free

\* positions of heap_destroy's steps
Steps(op, a) == {i \in 1..Len(dlog) : dlog[i].op = op /\ dlog[i].arena = a}

\* C10: heap_destroy walks an arena before releasing it, releases every
\* arena of the chain exactly once, releases the heap structure after all
\* arenas, and reads nothing it has released.
C10_DestroyOrder ==
    /\ ~use_after_free
    /\ \A i \in 1..Len(dlog) :
          dlog[i].op = "release" =>
              \E j \in 1..(i - 1) : dlog[j] = [op |-> "walk", arena |-> dlog[i].arena]
    /\ \A i, j \in 1..Len(released) : released[i] = released[j] => i = j
    /\ \A i \in 1..Len(dlog) :
          dlog[i].op = "release_heap" =>
              /\ i = Len(dlog)
              /\ \A k \in 1..Len(arena) : Steps("release", arena[k]) # {}
    /\ heap_released =>
          {released[i] : i \in 1..Len(released)} = {r.base : r \in regions}
    /\ dpc = "done" => heap_released /\ Len(released) = Len(arena)

C10_Witness ==
    /\ dpc = "done"
    /\ Len(arena) >= 2
    /\ Len(reports) >= 1

(***************************************************************************)
(* Properties of the entity-component-system runtime                       *)
(***************************************************************************)
\* the ref of whatever lives in a slot now
current_ref(s) == [slot |-> s, gen |-> slots[s].gen]

\* C11: once entity_remove(ref) has removed an entity, entity_get_component
\* with that ref returns null whatever the type and create_if_missing and
\* whatever happened since, also when entity_add has put a new entity into
\* the same slot.
C11_RemovedRefGivesNull ==
    /\ \A ref \in removed : \A type \in EntityTypes, cim \in BOOLEAN :
          ecs_entity_get_component(slots, ref, type, cim) = {NULL}
    /\ (ecs_op.name = "entity_get_component" /\ ecs_op.ref \in removed)
          => ecs_op.ret = NULL

C11_Witness ==
    /\ ecs_op.name = "entity_get_component"
    /\ ecs_op.ref \in removed
    /\ slots[ecs_op.ref.slot].live
    /\ ecs_op.type \in slots[ecs_op.ref.slot].mask

\* the slots a query over a mask has to visit
Matching(mask) == {s \in EntitySlots : slots[s].live /\ mask \subseteq slots[s].mask}

\* C12: a query iterated to its end with no entity added or removed on the
\* way has visited exactly the live slots whose mask holds every required
\* bit, each once, in increasing slot order.
C12_QueryVisitsMatchingInOrder ==
    (query.active /\ query.ended /\ ~query.dirty) =>
        /\ {query.visited[i] : i \in 1..Len(query.visited)} = Matching(query.mask)
        /\ \A i, j \in 1..Len(query.visited) :
              i < j => query.visited[i] < query.visited[j]

\* E1 = {0} in slot 0 and E2 = {0, 1} in slot 1: the query over {1} ends
\* having visited E2 only
C12_Witness ==
    /\ query.active /\ query.ended /\ ~query.dirty
    /\ slots[0].live /\ slots[0].mask = {0}
    /\ slots[1].live /\ slots[1].mask = {0, 1}
    /\ query.mask = {1}
    /\ query.visited = <<1>>

\* C13: the first 64 register_component_type calls return pairwise distinct
\* ids in [0, 64); every later call returns the failure value and the
\* number of registered types stays 64.
C13_RegistrationLimit ==
    /\ \A i \in 1..Len(type_ids) :
          IF i <= MaskWidth
          THEN /\ type_ids[i] \in 0..(MaskWidth - 1)
               /\ \A j \in 1..(i - 1) : type_ids[j] # type_ids[i]
          ELSE type_ids[i] = RegistrationFailed
    /\ ntypes = IF Len(type_ids) <= MaskWidth THEN Len(type_ids) ELSE MaskWidth

C13_Witness ==
    /\ Len(type_ids) = MaskWidth + MaxFailedRegistrations
    /\ ntypes = MaskWidth
    /\ ecs_op.ret = RegistrationFailed

\* does the step made remove the entity living in slot s
RemovesFrom(s) ==
    ecs_op'.name = "entity_remove" /\ ecs_op'.ref = current_ref(s) /\ slots[s].live

\* does the step made add an entity into slot s
AddsInto(s) == ecs_op'.name = "entity_add" /\ ecs_op'.rref.slot = s

\* C14: a slot goes from Free to Live only by entity_add and from Live to
\* Free only by entity_remove with the matching ref; every other step leaves
\* it as it is; the generation never decreases and changes on each add and
\* each successful remove.
C14_SlotStateMachine ==
    [][\A s \in EntitySlots :
          /\ (~slots[s].live /\ slots'[s].live) => AddsInto(s)
          /\ (slots[s].live /\ ~slots'[s].live) => RemovesFrom(s)
          /\ AddsInto(s) => (~slots[s].live /\ slots'[s].live
                               /\ slots'[s].gen # slots[s].gen)
          /\ RemovesFrom(s) => (~slots'[s].live /\ slots'[s].gen # slots[s].gen)
          /\ ~(AddsInto(s) \/ RemovesFrom(s)) => slots'[s] = slots[s]
          /\ slots'[s].gen >= slots[s].gen]_vars

\* a slot in its second life, just after a remove with its first ref
C14_Witness ==
    \E s \in EntitySlots :
        /\ slots[s].live
        /\ slots[s].gen > 2
        /\ ecs_op.name = "entity_remove"
        /\ ecs_op.ref.slot = s

\* C15: right after entity_add(mask) the returned ref gives, for every type
\* of the mask, a non-null pointer that no other live entity gets for that
\* type.
C15_FreshComponentsDistinct ==
    ecs_op.name = "entity_add" =>
        \A type \in ecs_op.mask, cim \in BOOLEAN :
            \A v \in ecs_entity_get_component(slots, ecs_op.rref, type, cim) :
                /\ v # NULL
                /\ \A o \in EntitySlots \ {ecs_op.rref.slot} :
                      slots[o].live =>
                          v \notin ecs_entity_get_component(slots, current_ref(o),
                                                            type, cim)

C15_Witness ==
    /\ ecs_op.name = "entity_add"
    /\ ecs_op.mask = EntityTypes
    /\ \E o \in EntitySlots \ {ecs_op.rref.slot} :
          slots[o].live /\ slots[o].mask = EntityTypes

\* C16: entity_remove with a ref whose generation is not the slot's leaves
\* every slot as it was.
C16_StaleRemoveIsNoOp ==
    [][(ecs_op'.name = "entity_remove"
          /\ ecs_op'.ref.gen # slots[ecs_op'.ref.slot].gen) => slots' = slots]_vars

\* the second remove with a ref whose slot has been reused: the new entity
\* is still there
C16_Witness ==
    /\ ecs_op.name = "entity_remove"
    /\ ecs_op.ref \in removed
    /\ slots[ecs_op.ref.slot].live
    /\ slots[ecs_op.ref.slot].mask # {}

\* C17: entity_get_component on a live entity, without create_if_missing,
\* for a type its mask lacks returns null and changes no mask.
C17_MissingComponentIsNull ==
    [][(/\ ecs_op'.name = "entity_get_component"
        /\ ~ecs_op'.cim
        /\ ecs_op'.ref = current_ref(ecs_op'.ref.slot)
        /\ slots[ecs_op'.ref.slot].live
        /\ ecs_op'.type \notin slots[ecs_op'.ref.slot].mask)
       => (ecs_op'.ret = NULL /\ slots' = slots)]_vars

C17_Witness ==
    /\ ecs_op.name = "entity_get_component"
    /\ ~ecs_op.cim
    /\ ecs_op.ref = current_ref(ecs_op.ref.slot)
    /\ slots[ecs_op.ref.slot].live
    /\ ecs_op.type \notin slots[ecs_op.ref.slot].mask
    /\ ecs_op.ret = NULL

\* C18: every query_next on a valid query moves the cursor to a higher slot
\* or past the last one, the cursor never goes past MaxEntities, and a query
\* that was invalid stays invalid: an iteration ends within MaxEntities
\* calls and stays ended.
C18_QueryIterationEnds ==
    [][ecs_op'.name = "query_next" =>
          /\ query'.cursor <= MaxEntities
          /\ IF ecs_query_is_valid(query)
             THEN query'.cursor > query.cursor
             ELSE ~ecs_query_is_valid(query')
          /\ Len(query'.visited) <= MaxEntities]_vars

\* an iteration over every slot that has ended
C18_Witness ==
    /\ ecs_op.name = "query_next"
    /\ query.ended
    /\ ~ecs_query_is_valid(query)
    /\ Len(query.visited) = MaxEntities

(***************************************************************************)
(* Properties of the stored call stacks                                    *)
(***************************************************************************)
\* the allocations whose call stack heap_alloc has stored: those the callers
\* hold and those of the threads past line 133
Captured ==
    {[ptr |-> a.ptr, size |-> a.size, alignment |-> a.alignment] : a \in live}
    \cup {[ptr |-> frame[t].address, size |-> frame[t].size,
           alignment |-> frame[t].alignment] :
            t \in {u \in Threads : pc[u] \in {"alloc_unlock", "alloc_return"}
                                   /\ frame[u].address # NULL}}

\* the block tlsf reserved for an address
block_of(p) == CHOOSE b \in blocks : b.ptr = p /\ ~b.free

\* C19: for every live allocation memory_leak_walker reads the call stack
\* where heap_alloc stored it.
C19_WalkerReadsWhereStored ==
    \A a \in live :
        /\ \E b \in blocks : b.ptr = a.ptr /\ ~b.free
        /\ callstack_address(a.ptr, block_of(a.ptr).size)
             = stack_address(a.ptr, padded_size(a.size, a.alignment))

\* C20: the stored call stack lies after the payload and inside the block of
\* its allocation, overlaps no payload of another allocation, is not
\* overwritten by another allocation's call stack, and the caller gets the
\* address tlsf_memalign returned.
C20_StackAfterPayloadInsideBlock ==
    \A a \in Captured :
        LET stack == stack_address(a.ptr, padded_size(a.size, a.alignment))
        IN /\ \E b \in blocks : b.ptr = a.ptr /\ ~b.free
           /\ a.ptr + a.size <= stack
           /\ stack + StackBytes <= a.ptr + block_of(a.ptr).size
           /\ \A o \in Captured :
                 o.ptr # a.ptr =>
                     (stack + StackBytes <= o.ptr \/ o.ptr + o.size <= stack)
           /\ [addr |-> stack, ptr |-> a.ptr] \in stackmem

\* two live allocations in one arena, the second right behind the first
C20_Witness ==
    \E a, b \in live :
        /\ a.ptr < b.ptr
        /\ b.ptr < a.ptr + block_of(a.ptr).size + StackBytes
        /\ block_of(a.ptr).size > padded_size(a.size, a.alignment) + StackBytes

(***************************************************************************)
(* Properties of the file system                                           *)
(***************************************************************************)
\* the file system in use, before anyone calls fs_destroy
FsRunNext ==
    \/ FsRead
    \/ FsWrite
    \/ FsWorkDestroy
    \/ FilePop
    \/ FileHandle
    \/ CompressionPop
    \/ CompressionHandle

\* the worker threads run whenever they can
FsFairSpec ==
    /\ FsInit /\ [][FsRunNext]_vars
    /\ WF_vars(FilePop) /\ WF_vars(FileHandle)
    /\ WF_vars(CompressionPop) /\ WF_vars(CompressionHandle)

\* C21: every work item fs_read or fs_write returned eventually has its done
\* event signalled, whatever stage fails.
C21_EveryWorkIsSignalled ==
    \A w \in WorkIds : (work[w].state = "submitted") ~> work[w].done

\* the work items handed to fs_read or fs_write so far
Submitted == {w \in WorkIds : work[w].state # "none"}

\* C22: during fs_destroy no destroyed queue is pushed to or popped from, and
\* when fs_destroy has returned every submitted work item is done.
C22_DestroyCompletesAllWork ==
    /\ ~queue_misuse
    /\ fs_pc = "destroyed" => \A w \in Submitted : work[w].done

\* the stages a work item goes through, in order
StageOrder(wk) ==
    IF ~wk.use_compression THEN <<"file">>
    ELSE IF wk.op = "read" THEN <<"file", "compression">>
    ELSE <<"compression", "file">>

\* C27: the stages that have handled a work item are the first of its stage
\* order, and a work item whose done event is signalled has been through all
\* of them.
C27_StagesInOrder ==
    \A w \in Submitted :
        /\ Len(work[w].stages) <= Len(StageOrder(work[w]))
        /\ work[w].stages = SubSeq(StageOrder(work[w]), 1, Len(work[w].stages))
        /\ work[w].done => work[w].stages = StageOrder(work[w])

\* a compressed write and a compressed read, both done
C27_Witness ==
    \E a, b \in WorkIds :
        /\ work[a].done /\ work[a].use_compression /\ work[a].op = "write"
        /\ work[a].stages = <<"compression", "file">>
        /\ work[b].done /\ work[b].use_compression /\ work[b].op = "read"
        /\ work[b].stages = <<"file", "compression">>

\* the places a work item is in: a queue or the hands of a thread
Places(w) ==
    {<<"file_queue", i>> : i \in {j \in 1..Len(file_queue) : file_queue[j] = w}}
    \cup {<<"compression_queue", i>> :
            i \in {j \in 1..Len(compression_queue) : compression_queue[j] = w}}
    \cup (IF file_thread.work = w THEN {<<"file_thread", 0>>} ELSE {})
    \cup (IF compression_thread.work = w THEN {<<"compression_thread", 0>>} ELSE {})

\* C28: a work item is in one place at most, its done event is signalled once
\* at most, and once it is signalled the item is in no queue and no worker
\* holds or touches it.
C28_OneOwnerAtATime ==
    /\ ~work_race
    /\ \A w \in WorkIds :
          /\ Cardinality(Places(w)) <= 1
          /\ work[w].signals <= 1
          /\ work[w].done => Places(w) = {}
          /\ work[w].state = "destroyed" => work[w].done

\* a compressed read that went through both threads and was destroyed by its
\* submitter while the other item is still with a worker
C28_Witness ==
    \E w, o \in WorkIds :
        /\ work[w].state = "destroyed"
        /\ work[w].stages = <<"file", "compression">>
        /\ work[w].signals > 0
        /\ Places(o) # {}

\* C29: a work item that is done with result 0 has had no failing stage.
C29_ZeroResultMeansSuccess ==
    \A w \in WorkIds : (work[w].done /\ work[w].result = 0) => ~work[w].failed

(***************************************************************************)
(* Properties of the arena chain                                           *)
(***************************************************************************)
\* C23: the chain starts empty and never holds more arenas than heap_alloc
\* was called; it changes only when a heap_alloc whose first attempt failed
\* links the arena it reserved, once, at the head; no arena is released
\* before heap_destroy runs.
C23_ArenaChainGrowsAtHead ==
    /\ [](Len(arena) <= calls)
    /\ [][/\ arena' # arena =>
                \E t \in Threads :
                    /\ pc[t] = "alloc_add_pool" /\ pc'[t] = "alloc_retry"
                    /\ frame[t].grew /\ frame[t].address = NULL
                    /\ \A i \in 1..Len(arena) : arena[i] # frame[t].arena
                    /\ arena' = <<frame[t].arena>> \o arena
          /\ released' # released => dpc # "none"
          /\ dpc = "none" => released = << >>]_vars

\* two arenas, the newer one first, and a block given back in between
C23_Witness ==
    /\ Len(arena) = 2
    /\ arena[1] > arena[2]
    /\ freed # {}
    /\ dpc = "none"

(***************************************************************************)
(* Properties of the gameplay layers' calls into the entity runtime        *)
(***************************************************************************)
\* C24: every ecs_query_get_component call of the C game and of the Lua
\* project's renderer asks for a type that is in the mask the query was
\* created with
C24_QueryGetsWithinMask ==
    g_call.name = "query_get_component" => g_call.type \in g_call.mask

\* the entity an ecs_entity_get_component call names is there as created
CalledEntity == g_slots[g_call.ref.slot]

\* C25: every ecs_entity_get_component call of the C game and of the Lua
\* script asks for a type in the mask the entity was created with, so
\* create_if_missing never has to add a component: the call has one outcome,
\* the component that is already there
C25_EntityGetsWithinCreationMask ==
    g_call.name = "entity_get_component" =>
        /\ ecs_is_entity_ref_valid(g_slots, g_call.ref)
        /\ g_call.type # RegistrationFailed
        /\ g_call.type \in CalledEntity.mask
        /\ ecs_entity_get_component(g_slots, g_call.ref, g_call.type, TRUE)
              = {component_pointer(g_call.type, g_call.ref.slot)}

\* the script reads a car's traffic component in a frame
C25_Witness ==
    /\ frontend = "lua" /\ g_pc.prog = "frame"
    /\ g_call.name = "entity_get_component"
    /\ g_call.type = g_types["traffic"]
    /\ g_call.ref \in {g_ents["traffic"][i] : i \in 1..Len(g_ents["traffic"])}

AllRegistered ==
    /\ g_ntypes = Cardinality(ComponentNames)
    /\ \A n \in ComponentNames : g_types[n] \in 0..(g_ntypes - 1)
    /\ \A n, m \in ComponentNames : g_types[n] = g_types[m] => n = m

\* C26: in both front-ends every component type is registered before the
\* first entity is created and none afterwards
C26_RegistrationBeforeEntities ==
    /\ [](g_ents # NoEntities => AllRegistered)
    /\ [][/\ g_ents # NoEntities => g_ntypes' = g_ntypes /\ g_types' = g_types
          /\ g_ents' # g_ents => AllRegistered]_vars

\* the script's first ECS:AddEntity, after create_base_components
C26_Witness ==
    /\ frontend = "lua"
    /\ g_call.name = "entity_add"
    /\ Len(g_ents["player"]) = 1 /\ g_ents["traffic"] = << >>
    /\ AllRegistered

(***************************************************************************)
(* Properties of the trace recorder                                        *)
(***************************************************************************)
\* C30: every event slot trace_duration_push, trace_duration_pop and
\* format_output address lies inside its array, the thread's durations of
\* capacity events or trace_logs of 2 * capacity events
C30_EventSlotsInsideArrays ==
    \A a \in trace_touched : 0 <= a.slot /\ a.slot < a.size

(***************************************************************************)
(* Properties of the padded size                                           *)
(***************************************************************************)
\* C39: the padded size heap_alloc computes is the requested size rounded up
\* to a multiple of the alignment: a multiple of the alignment, at least the
\* size, and less than size + alignment
C39_PaddedSizeIsRoundedUp ==
    \A t \in Threads :
        frame[t].padded_size > 0 =>
            /\ frame[t].padded_size = padded_size(frame[t].size, frame[t].alignment)
            /\ frame[t].padded_size % frame[t].alignment = 0
            /\ frame[t].padded_size >= frame[t].size
            /\ frame[t].padded_size < frame[t].size + frame[t].alignment

(***************************************************************************)
(* Properties of the heap's lock                                           *)
(***************************************************************************)
\* C36: no heap operation acquires the heap's mutex while the same thread
\* already holds it: a thread that is at the mutex_lock of heap_alloc or
\* heap_free is not the owner of the mutex
C36_NoReentrantLock ==
    \A t \in Threads : pc[t] \in {"alloc_lock", "free_lock"} => mutex # t

(***************************************************************************)
(* Properties of the script interface                                      *)
(***************************************************************************)
\* C37: ECS:AddEntity passes the script's mask to ecs_entity_add unchanged:
\* the mask the entity is created with has exactly the bits the script set
C37_AddEntityKeepsMask ==
    api_pc = "added" => entity_mask = script_mask

(***************************************************************************)
(* Properties of the Frogger rules                                         *)
(***************************************************************************)
\* the player update started with the player on the top limit
StartedAtTop == play_last.z = bound_top + identity_scale

\* the player update started with the player overlapping the car
StartedOverlapping ==
    /\ fabs(play_last.car_y - play_last.y) < car_size + identity_scale
    /\ fabs(play_last.car_z - play_last.z) < identity_scale + identity_scale

\* C38: when a player update starts with the player on the top limit
\* bound_top + size_z, or overlapping a car, the player is reset to y = 0 and
\* z = bound_bottom before the movement of the frame is applied, in both
\* front-ends
C38_ResetAtTopAndOnCollision ==
    play_last.called /\ (StartedAtTop \/ StartedOverlapping) =>
        /\ play_last.reset_y = 0
        /\ play_last.reset_z = bound_bottom
        /\ player.y = clamp(bound_left + identity_scale,
                            bound_right - identity_scale, play_last.dy)
        /\ player.z = clamp(bound_top + identity_scale,
                            bound_bottom - identity_scale,
                            bound_bottom + play_last.dz)

\* the script's player reached the top by the clamp and, with the up key
\* still down, was sent back to the bottom and moved from there
C38_Witness ==
    /\ play_frontend = "lua"
    /\ play_last.called /\ StartedAtTop /\ ~StartedOverlapping
    /\ play_last.dz < 0
    /\ player.z = bound_bottom + play_last.dz

\* C31: on each thread whose pushes and pops are properly nested the
\* duration count never becomes negative, and the end event a pop writes
\* carries the name and thread id of that thread's most recent push that has
\* not been popped
C31_PopsPairWithPushes ==
    \A t \in TraceThreads :
        nested[t] =>
            /\ duration_count[t] >= 0
            /\ trace_end.written /\ trace_end.tid = t =>
                  trace_end.name = trace_end.expected

\* C32: every event format_output emits was stored by a push or a pop, so it
\* emits no more events than were written into trace_logs
C32_EmittedEventsWereStored ==
    /\ \A k \in 1..Len(trace_emitted) : trace_emitted[k] # NoEvent
    /\ Len(trace_emitted)
          <= Cardinality({i \in DOMAIN trace_logs : trace_logs[i] # NoEvent})

\* C33: the output of a trace_capture_stop holds only events recorded since
\* the matching trace_capture_start
C33_OutputHoldsOnlyItsCapture ==
    ~trace_enabled =>
        \A k \in 1..Len(trace_emitted) :
            trace_emitted[k] # NoEvent => trace_emitted[k].capture = captures

(***************************************************************************)
(* Properties of the side-list heap                                        *)
(***************************************************************************)
\* the leaks heap_destroy printed
Printed == {side_reports[i] : i \in 1..(Len(side_reports) - 1)}

\* C35: in the side-list heap, heap_destroy reports every block that is
\* still live, and the call stack it prints for a block is the one captured
\* by the heap_alloc call that returned the block
C35_LeaksReportedWithTheirStacks ==
    side_reports # << >> =>
        /\ \A a \in side_live : a \in Printed
        /\ \A p \in Printed : p \in side_live

(***************************************************************************)
(* Properties of the list of thread stacks                                 *)
(***************************************************************************)
\* the records of the list, from trace->thread_stacks on
Listed == stack_list(thread_stacks, Len(stack_records))

\* C34: however the calls of the threads interleave, the list of thread
\* stacks holds at most one record per thread id, and every record that was
\* appended to the list is still in it
C34_OneRecordPerThreadNoneLost ==
    /\ \A i, j \in 1..Len(Listed) :
          stack_records[Listed[i]].tid = stack_records[Listed[j]].tid => i = j
    /\ \A r \in stack_appended : \E i \in 1..Len(Listed) : Listed[i] = r

\* two records are in the list, a third thread walks the list under the lock
\* and another thread is back searching for its record
C34_Witness ==
    /\ Cardinality(stack_appended) = 2
    /\ \E t, u \in StackThreads :
          /\ stack_pc[t] = "walk"
          /\ stack_frame[t].itr # thread_stacks
          /\ stack_pc[u] = "search"
          /\ stack_frame[u].this # NULL

====
